---- MODULE Spec2Model ----
(***************************************************************************)
(* Foreign-field arithmetic gadgets of o1js                                *)
(* (src/src/lib/gadgets/foreign-field.ts).                                 *)
(*                                                                         *)
(* One call of the facade (ForeignField.from / toBigint / sumChain / mul / *)
(* inv / div) is one action.  A call reads its operands from `op`, and     *)
(* leaves the returned limbs in `ret`, a thrown error in `err` and the     *)
(* witnesses, gates, range checks and assertions it emitted, in order, in  *)
(* `events`.  The witness callbacks of exists() are evaluated on the       *)
(* concrete values (witness-generation pass).                              *)
(*                                                                         *)
(* The limb width is scaled down from 88 bits so that products of two      *)
(* three-limb values stay inside TLC's integers; every width the code      *)
(* derives from L (L2, L3, the masks) is derived from it here as well.     *)
(***************************************************************************)
EXTENDS Integers, Sequences, FiniteSets

(***************************************************************************)
(* Bounds of the model                                                     *)
(***************************************************************************)
\* limb width in bits (88 in range-check.js)
L == 2
\* operand values 0..MaxVal are enumerated next to the boundary values
MaxVal == 15
\* longest sign list handed to sumChain
MaxSigns == 2

(***************************************************************************)
(* Widths and masks, range-check.js as imported at foreign-field.ts:10-18  *)
(***************************************************************************)
L2 == 2 * L
L3 == 3 * L
lMask == 2^L - 1
l2Mask == 2^L2 - 1

\* `f < 1n << 259n`: the modulus ceiling, 259 of the 264 bits of three limbs;
\* scaled to one bit below three limbs so that f >> L2 is not always 0
ModulusBits == L3 - 1

\* order of the native field (Field.ORDER): between 2^L2 and 2^L3, and below
\* the modulus ceiling, as the 255-bit native field is for L = 88
p == 2^(L3 - 1) - 3

(***************************************************************************)
(* bigint operators of the source                                          *)
(***************************************************************************)
\* x >> n on bigints: arithmetic shift, i.e. floor division (for the values of
\* the model, all below 2^31 in size, a shift by 31 or more leaves the sign)
Shr(x, n) == IF n >= 31 THEN (IF x >= 0 THEN 0 ELSE -1) ELSE x \div (2^n)
\* x & (2^n - 1) on bigints (two's complement for negative x)
Mask(x, n) == x % (2^n)

\* bitSlice(x, start, length) of gadgets/common.js
bitSliceFromZeroMut(x, start, length) == Mask(x, length)
bitSlice(x, start, length) == Mask(Shr(x, start), length)

\* mod(x, p) of bindings/crypto/finite_field.js, for p > 0
mod(x, m) == x % m

\* value standing for JavaScript's undefined
Undefined == -1

\* inverse(a, p) of bindings/crypto/finite_field.js: the residue z with
\* a * z = 1 modulo m, undefined when there is none
modInverse(a, m) ==
  LET cands == {z \in 0..(m - 1) : (mod(a, m) * z) % m = 1}
  IN  IF cands = {} THEN Undefined ELSE CHOOSE z \in cands : TRUE

(***************************************************************************)
(* Limb codec, foreign-field.ts:332-344                                    *)
(***************************************************************************)
collapse(x) == x[1] + x[2] * 2^L + x[3] * 2^L2

splitLowFirstMut(x) == <<Mask(x, L), Mask(Shr(x, L), L), Mask(Shr(x, L), L)>>
split(x) == <<Mask(x, L), Mask(Shr(x, L), L), Mask(Shr(x, L2), L)>>

collapse2(x) == x[1] + x[2] * 2^L

split2(x) == <<Mask(x, L), Mask(Shr(x, L), L)>>

(***************************************************************************)
(* Native field values: a value modulo p, constant or variable             *)
(***************************************************************************)
\* new Field(x): a constant
Field(x) == [v |-> x % p, c |-> TRUE]
\* a variable created by exists(), holding the value its callback computed
Var(x) == [v |-> x % p, c |-> FALSE]

\* Field3(x: bigint3) and bigint3(x: Field3), foreign-field.ts:325-330
Field3(x) == <<Field(x[1]), Field(x[2]), Field(x[3])>>
bigint3(x) == <<x[1].v, x[2].v, x[3].v>>
\* the three variables of exists(3, ...)
Var3(x) == <<Var(x[1]), Var(x[2]), Var(x[3])>>
\* the variables of exists(n, ...) for the n computed values w
Vars(w) == [i \in 1..Len(w) |-> Var(w[i])]

isConstant3OuterLimbsMut(x) == x[1].c /\ x[3].c
isConstant3(x) == x[1].c /\ x[2].c /\ x[3].c

\* Field.add and Field.mul by a bigint: constant iff the receiver is
FieldAdd(x, y) == [v |-> (x.v + y) % p, c |-> x.c]
FieldMul(x, y) == [v |-> (x.v * y) % p, c |-> x.c]
\* Field.add of two fields
FieldAddF(x, y) == [v |-> (x.v + y.v) % p, c |-> x.c /\ y.c]

\* ForeignField.from and ForeignField.toBigint, foreign-field.ts:47-52
From(x) == Field3(split(x))
ToBigint(x) == collapse(bigint3(x))

(***************************************************************************)
(* Emitted events: witnesses, gates, range checks, assertions              *)
(***************************************************************************)
\* exists(n, compute): n new variables holding the computed values
EvExists(vars) == [type |-> "exists", name |-> "exists", args |-> vars, ok |-> TRUE]
\* Gates.zero / foreignFieldAdd / Gates.foreignFieldMul
EvGate(name, args) == [type |-> "gate", name |-> name, args |-> args, ok |-> TRUE]
\* multiRangeCheck(x, y, z): satisfied iff each value is below 2^L
EvMultiRangeCheck(x, y, z) ==
  [type |-> "rangeCheck", name |-> "multiRangeCheck", args |-> <<x, y, z>>,
   ok |-> x.v < 2^L /\ y.v < 2^L /\ z.v < 2^L]
\* compactMultiRangeCheck(xy, z): satisfied iff xy < 2^L2 and z < 2^L
EvCompactMultiRangeCheck(xy, z) ==
  [type |-> "rangeCheck", name |-> "compactMultiRangeCheck", args |-> <<xy, z>>,
   ok |-> xy.v < 2^L2 /\ z.v < 2^L]
\* x.assertEquals(y)
EvAssertEquals(x, y) ==
  [type |-> "assert", name |-> "assertEquals", args |-> <<x, y>>, ok |-> x.v = y.v]
\* a.equals(a0).and(b.equals(b0)).assertFalse()
EvAssertNotBoth(a, a0, b, b0) ==
  [type |-> "assert", name |-> "assertFalse", args |-> <<a, a0, b, b0>>,
   ok |-> ~(a.v = a0 % p /\ b.v = b0 % p)]

\* compactMultiRangeCheck(xy, z) of range-check.js: witnesses the two low limbs
\* of xy, checks the three limbs and returns them
compactMultiRangeCheck(xy, z) ==
  LET xy2 == split2(xy.v)
  IN  [result |-> <<Var(xy2[1]), Var(xy2[2]), z>>,
       events |-> <<EvCompactMultiRangeCheck(xy, z)>>]

\* outcome of a call
Throw(msg) == [err |-> msg, ret |-> <<>>, events |-> <<>>]
Return(ret, events) == [err |-> "", ret |-> ret, events |-> events]

ErrLengths == "inputs and operators match"
ErrModulus == "Foreign modulus fits in 259 bits"
ErrInverse == "inverse exists"
ErrDivZero == "RangeError: Division by zero"

(***************************************************************************)
(* weakBound, foreign-field.ts:319-323                                     *)
(***************************************************************************)
weakBoundNoDecrementMut(x, f) ==
  LET f2 == Shr(f, L2)
      f2Bound == 2^L - f2
  IN  FieldAdd(x, f2Bound)
weakBound(x, f) ==
  LET f2 == Shr(f, L2)
      f2Bound == 2^L - f2 - 1
  IN  FieldAdd(x, f2Bound)

(***************************************************************************)
(* singleAdd, foreign-field.ts:92-120                                      *)
(***************************************************************************)
\* the overflow indicator of one signed addition
addOverflowNoBorrowMut(r, sign, f) ==
  IF f = 0 THEN 0
  ELSE IF sign = 1 /\ r >= f THEN 1
  ELSE 0
addOverflowNoDisabledModeMut(r, sign, f) ==
  IF sign = 1 /\ r >= f THEN 1
  ELSE IF sign = -1 /\ r < 0 THEN -1
  ELSE 0
addOverflow(r, sign, f) ==
  IF f = 0 THEN 0
  ELSE IF sign = 1 /\ r >= f THEN 1
  ELSE IF sign = -1 /\ r < 0 THEN -1
  ELSE 0

\* the callback of exists(5, ...): <<r0, r1, r2, overflow, carry>>
singleAddWitness(x, y, sign, f) ==
  LET f_ == split(f)
      x_ == bigint3(x)
      y_ == bigint3(y)
      r == collapse(x_) + sign * collapse(y_)
      overflow == addOverflow(r, sign, f)
      r01 == collapse2(x_) + sign * collapse2(y_) - overflow * collapse2(f_)
      carry == Shr(r01, L2)
      r0r1 == split2(Mask(r01, L2))
      r2 == x_[3] + sign * y_[3] - overflow * f_[3] + carry
  IN  <<r0r1[1], r0r1[2], r2, overflow, carry>>

\* lines 117-119, on the five witnesses v
singleAddGate(x, y, sign, f, v) ==
  [result |-> <<v[1], v[2], v[3]>>,
   overflow |-> v[4],
   events |-> <<EvExists(v),
                EvGate("foreignFieldAdd", <<x, y, v[4], v[5], split(f), sign>>)>>]

singleAdd(x, y, sign, f) ==
  singleAddGate(x, y, sign, f, Vars(singleAddWitness(x, y, sign, f)))

(***************************************************************************)
(* sumChain, foreign-field.ts:55-82                                        *)
(***************************************************************************)
\* sign.reduce((sum, s, i) => sum + s * xBig[i + 1], xBig[0]), from index i on
RECURSIVE signedSum(_, _, _, _)
signedSum(sum, xBig, sign, i) ==
  IF i > Len(sign) THEN sum
  ELSE signedSum(sum + sign[i] * xBig[i + 1], xBig, sign, i + 1)

\* the loop over singleAdd, from index i on
RECURSIVE sumFold(_, _, _, _, _)
sumFold(result, x, sign, f, i) ==
  IF i > Len(sign) THEN [result |-> result, events |-> <<>>]
  ELSE LET s == singleAdd(result, x[i + 1], sign[i], f)
           rest == sumFold(s.result, x, sign, f, i + 1)
       IN  [result |-> rest.result, events |-> s.events \o rest.events]

sumChainConstant(x, sign, f) ==
  LET xBig == [i \in 1..Len(x) |-> ToBigint(x[i])]
      sum == signedSum(xBig[1], xBig, sign, 1)
  IN  IF f = 0 THEN Throw(ErrDivZero)
      ELSE Return(From(mod(sum, f)), <<>>)

sumChainProvableCheckFirstMut(x, sign, f) ==
  LET fold == sumFold(x[1], x, sign, f, 1)
      result == fold.result
  IN  Return(result,
             fold.events \o
             <<EvMultiRangeCheck(result[1], result[2], result[3]),
               EvGate("zero", result)>>)
sumChainProvable(x, sign, f) ==
  LET fold == sumFold(x[1], x, sign, f, 1)
      result == fold.result
  IN  Return(result,
             fold.events \o
             <<EvGate("zero", result),
               EvMultiRangeCheck(result[1], result[2], result[3])>>)

sumChain(x, sign, f) ==
  IF Len(x) # Len(sign) + 1 THEN Throw(ErrLengths)
  ELSE IF \A i \in 1..Len(x) : isConstant3(x[i]) THEN sumChainConstant(x, sign, f)
  ELSE sumChainProvable(x, sign, f)

(***************************************************************************)
(* multiplyNoRangeCheck, foreign-field.ts:225-317                          *)
(***************************************************************************)
\* bitSlice windows <<start, length>> of the high carry c1, lines 261-271
carry1Windows ==
  << <<0, 12>>, <<12, 12>>, <<24, 12>>, <<36, 12>>, <<48, 12>>, <<60, 12>>,
     <<72, 12>>, <<84, 2>>, <<86, 2>>, <<88, 2>>, <<90, 1>> >>

\* let q = ab / f; let r = ab - q * f
mulQuotientRoundedUpMut(ab, f) == ab \div f + 1
mulQuotient(ab, f) == ab \div f
mulRemainderNoScaleMut(ab, q, f) == ab - q
mulRemainder(ab, q, f) == ab - q * f

\* the callback of exists(21, ...), in the order of its return value
mulWitness(a, b, f) ==
  LET f_ == 2^L3 - f
      fs == split(f_)
      f2 == Shr(f, L2)
      f2Bound == 2^L - f2 - 1
      a_ == bigint3(a)
      b_ == bigint3(b)
      ab == collapse(a_) * collapse(b_)
      q == mulQuotient(ab, f)
      r == mulRemainder(ab, q, f)
      q_ == split(q)
      r_ == split(r)
      r01 == collapse2(<<r_[1], r_[2]>>)
      p0 == a_[1] * b_[1] + q_[1] * fs[1]
      p1 == a_[1] * b_[2] + a_[2] * b_[1] + q_[1] * fs[2] + q_[2] * fs[1]
      p2 == a_[1] * b_[3] + a_[2] * b_[2] + a_[3] * b_[1]
            + q_[1] * fs[3] + q_[2] * fs[2] + q_[3] * fs[1]
      p1s == split(p1)
      p11 == collapse2(<<p1s[2], p1s[3]>>)
      c0 == Shr(p0 + p1s[1] * 2^L - r01, L2)
      c1 == Shr(p2 - r_[3] + p11 + c0, L)
      c1s == [i \in 1..Len(carry1Windows) |->
                bitSlice(c1, carry1Windows[i][1], carry1Windows[i][2])]
      q2Bound == q_[3] + f2Bound
  IN  <<r01, r_[3], q_[1], q_[2], q_[3], q2Bound, p1s[1], p1s[2], p1s[3], c0>>
      \o c1s

\* lines 289-316: the ffmul gate on the 21 witnesses v, and the values returned
mulGate(a, b, f, v) ==
  [r01 |-> v[1], r2 |-> v[2], q |-> <<v[3], v[4], v[5]>>, q2Bound |-> v[6],
   events |-> <<EvExists(v),
                EvGate("foreignFieldMul",
                       [left |-> a, right |-> b, remainder |-> <<v[1], v[2]>>,
                        quotient |-> <<v[3], v[4], v[5]>>,
                        quotientHiBound |-> v[6],
                        product1 |-> <<v[7], v[8], v[9]>>, carry0 |-> v[10],
                        carry1p |-> SubSeq(v, 11, 17),
                        carry1c |-> SubSeq(v, 18, 21),
                        foreignFieldModulus2 |-> Shr(f, L2),
                        negForeignFieldModulus |-> split(2^L3 - f)])>>]

multiplyNoRangeCheck(a, b, f) == mulGate(a, b, f, Vars(mulWitness(a, b, f)))

\* assert(f < 1n << 259n, ...), the first statement of multiply/inverse/divide
modulusFitsInclusiveMut(f) == f <= 2^ModulusBits
modulusFits(f) == f < 2^ModulusBits

(***************************************************************************)
(* multiply, foreign-field.ts:122-144                                      *)
(* (with f = 0 the first division, on either path, throws a RangeError     *)
(* before anything is emitted)                                             *)
(***************************************************************************)
\* lines 134-143, on the outcome m of multiplyNoRangeCheck
multiplyRangeChecks(f, m) ==
  LET r == compactMultiRangeCheck(m.r01, m.r2)
      r2Bound == weakBound(m.r2, f)
  IN  Return(r.result,
             m.events \o
             <<EvMultiRangeCheck(m.q[1], m.q[2], m.q[3])>> \o
             r.events \o
             <<EvExists(<<Var(0)>>),
               EvMultiRangeCheck(m.q2Bound, r2Bound, Var(0))>>)

multiplyProvable(a, b, f) ==
  multiplyRangeChecks(f, multiplyNoRangeCheck(a, b, f))

multiplyLateCheckMut(a, b, f) ==
  IF f = 0 THEN Throw(ErrDivZero)
  ELSE IF isConstant3(a) /\ isConstant3(b)
       THEN IF ~modulusFits(f) THEN Throw(ErrModulus)
            ELSE Return(From(mod(ToBigint(a) * ToBigint(b), f)), <<>>)
  ELSE IF ~modulusFits(f)
       THEN [err |-> ErrModulus, ret |-> <<>>,
             events |-> multiplyProvable(a, b, f).events]
  ELSE multiplyProvable(a, b, f)
multiply(a, b, f) ==
  IF ~modulusFits(f) THEN Throw(ErrModulus)
  ELSE IF f = 0 THEN Throw(ErrDivZero)
  ELSE IF isConstant3(a) /\ isConstant3(b)
       THEN Return(From(mod(ToBigint(a) * ToBigint(b), f)), <<>>)
  ELSE multiplyProvable(a, b, f)

(***************************************************************************)
(* inverse, foreign-field.ts:146-177                                       *)
(***************************************************************************)
\* the callback of exists(3, ...), lines 157-160
inverseWitnessNoPlaceholderMut(x, f) ==
  LET xInv == modInverse(ToBigint(x), f)
  IN  IF xInv = Undefined THEN <<1, 0, 0>> ELSE split(xInv)
inverseWitnessNegatedMut(x, f) ==
  LET xInv == modInverse(ToBigint(x), f)
  IN  IF xInv = Undefined THEN <<0, 0, 0>> ELSE split(f - xInv)
inverseWitness(x, f) ==
  LET xInv == modInverse(ToBigint(x), f)
  IN  IF xInv = Undefined THEN <<0, 0, 0>> ELSE split(xInv)

\* lines 163-176, on the witnessed xInv and the outcome m of
\* multiplyNoRangeCheck(x, xInv, f)
inverseChecksNoResultCheckMut(f, xInv, m) ==
  Return(xInv,
         <<EvExists(xInv)>> \o
         m.events \o
         <<EvMultiRangeCheck(m.q[1], m.q[2], m.q[3]),
           EvMultiRangeCheck(m.q2Bound, weakBound(xInv[3], f), Field(0)),
           EvAssertEquals(m.r01, Field(1)),
           EvAssertEquals(m.r2, Field(0))>>)
inverseChecks(f, xInv, m) ==
  Return(xInv,
         <<EvExists(xInv)>> \o
         m.events \o
         <<EvMultiRangeCheck(m.q[1], m.q[2], m.q[3]),
           EvMultiRangeCheck(xInv[1], xInv[2], xInv[3]),
           EvMultiRangeCheck(m.q2Bound, weakBound(xInv[3], f), Field(0)),
           EvAssertEquals(m.r01, Field(1)),
           EvAssertEquals(m.r2, Field(0))>>)

inverseWith(x, f, xInv) ==
  inverseChecks(f, xInv, multiplyNoRangeCheck(x, xInv, f))

inverseProvableSkipWithoutInverseMut(x, f) ==
  IF modInverse(ToBigint(x), f) = Undefined
  THEN Return(Var3(<<0, 0, 0>>), <<EvExists(Var3(<<0, 0, 0>>))>>)
  ELSE inverseWith(x, f, Var3(inverseWitness(x, f)))
inverseProvable(x, f) == inverseWith(x, f, Var3(inverseWitness(x, f)))

inverse(x, f) ==
  IF ~modulusFits(f) THEN Throw(ErrModulus)
  ELSE IF f = 0 THEN Throw(ErrDivZero)
  ELSE IF isConstant3(x)
       THEN LET xInv == modInverse(ToBigint(x), f)
            IN  IF xInv = Undefined THEN Throw(ErrInverse)
                ELSE Return(From(xInv), <<>>)
  ELSE inverseProvable(x, f)

(***************************************************************************)
(* divide, foreign-field.ts:179-223                                        *)
(***************************************************************************)
\* the callback of exists(3, ...), lines 191-195
divideWitnessUnreducedMut(x, y, f) ==
  LET yInv == modInverse(ToBigint(y), f)
  IN  IF yInv = Undefined THEN <<0, 0, 0>>
      ELSE split(ToBigint(x) * yInv)
divideWitnessNoInverseMut(x, y, f) ==
  LET yInv == modInverse(ToBigint(y), f)
  IN  IF yInv = Undefined THEN <<0, 0, 0>>
      ELSE split(mod(ToBigint(x) * ToBigint(y), f))
divideWitness(x, y, f) ==
  LET yInv == modInverse(ToBigint(y), f)
  IN  IF yInv = Undefined THEN <<0, 0, 0>>
      ELSE split(mod(ToBigint(x) * yInv, f))

\* the assertions of lines 211-220: y is neither 0 nor f
divideNonzeroChecks(y, f) ==
  LET y01 == FieldAddF(y[1], FieldMul(y[2], 2^L))
      f_ == split(f)
      f01 == collapse2(<<f_[1], f_[2]>>)
  IN  <<EvAssertNotBoth(y01, 0, y[3], 0),
        EvAssertNotBoth(y01, f01, y[3], f_[3])>>

\* lines 198-220, on the witnessed z and the outcome m of
\* multiplyNoRangeCheck(z, y, f)
divideChecksAlwaysNonzeroMut(x, y, f, allowZeroOverZero, z, m) ==
  Return(z,
         <<EvExists(z)>> \o
         m.events \o
         <<EvMultiRangeCheck(m.q[1], m.q[2], m.q[3]),
           EvMultiRangeCheck(z[1], z[2], z[3]),
           EvMultiRangeCheck(m.q2Bound, weakBound(z[3], f), Field(0)),
           EvAssertEquals(m.r01, FieldAddF(x[1], FieldMul(x[2], 2^L))),
           EvAssertEquals(m.r2, x[3])>> \o
         divideNonzeroChecks(y, f))
divideChecks(x, y, f, allowZeroOverZero, z, m) ==
  Return(z,
         <<EvExists(z)>> \o
         m.events \o
         <<EvMultiRangeCheck(m.q[1], m.q[2], m.q[3]),
           EvMultiRangeCheck(z[1], z[2], z[3]),
           EvMultiRangeCheck(m.q2Bound, weakBound(z[3], f), Field(0)),
           EvAssertEquals(m.r01, FieldAddF(x[1], FieldMul(x[2], 2^L))),
           EvAssertEquals(m.r2, x[3])>> \o
         (IF allowZeroOverZero THEN <<>> ELSE divideNonzeroChecks(y, f)))

divideWith(x, y, f, allowZeroOverZero, z) ==
  divideChecks(x, y, f, allowZeroOverZero, z, multiplyNoRangeCheck(z, y, f))

divideProvable(x, y, f, allowZeroOverZero) ==
  divideWith(x, y, f, allowZeroOverZero, Var3(divideWitness(x, y, f)))

divide(x, y, f, allowZeroOverZero) ==
  IF ~modulusFits(f) THEN Throw(ErrModulus)
  ELSE IF f = 0 THEN Throw(ErrDivZero)
  ELSE IF isConstant3(x) /\ isConstant3(y)
       THEN LET yInv == modInverse(ToBigint(y), f)
            IN  IF yInv = Undefined THEN Throw(ErrInverse)
                ELSE Return(From(mod(ToBigint(x) * yInv, f)), <<>>)
  ELSE divideProvable(x, y, f, allowZeroOverZero)

(***************************************************************************)
(* State                                                                   *)
(***************************************************************************)
VARIABLES
  pc,      \* "call": the call of op is pending; "done": it has returned or
           \* thrown; "back": the codec's inverse was applied to its result
  op,      \* the call: operation name and arguments
  ret,     \* the Field3 returned (<<>> when none)
  big,     \* the bigint returned by toBigint / collapse2 (Undefined when none)
  pair,    \* the two limbs returned by split2 (<<>> when none)
  err,     \* message of the error thrown ("" when none)
  events,  \* what the call emitted, in order
  \* LocalBlockchain (src/unnamed/part_000) and Transaction (part_001)
  ledger,    \* the ledger: ids of the transactions it applied, in order
  lbEvents,  \* the `events` store: per account, the recorded event entries
  lbActions, \* the `actions` store: per account, the recorded action entries
  sent,      \* number of transactions submitted so far
  pendings,  \* the PendingTransactions handed to the callers, in order
  lbOut,     \* the last call on the blockchain or a transaction, and its outcome
  \* on-chain state of smart contracts (src/src/lib/state.ts)
  contract,  \* per State object its `_contract` (NoContract when unattached)
  slots,     \* per contract instance and key the State object held in `_`
  preconditions, \* the (instance, key) pairs whose account update requires
                 \* the on-chain state to equal a value
  nextVar,   \* number of witness variables created so far
  period,    \* per State object, what happened to it since its last clean
  stOut,     \* the last call on a State or a contract, and its outcome
  \* createTransaction (src/unnamed/part_001) and the transaction context
  ctx,       \* currentTransaction: the stack of contexts entered and not left
  nextId,    \* number of contexts entered so far
  txPc,      \* where the running createTransaction is ("idle" when none runs)
  txOut      \* the last call of createTransaction, and its outcome

ffVars == <<pc, op, ret, big, pair, err, events>>
chainVars == <<ledger, lbEvents, lbActions, sent, pendings, lbOut>>
stateVars == <<contract, slots, preconditions, nextVar, period, stOut>>
txnVars == <<ctx, nextId, txPc, txOut>>
vars == <<pc, op, ret, big, pair, err, events, chainVars, stateVars, txnVars>>

(***************************************************************************)
(* LocalBlockchain, src/unnamed/part_000, and the transactions sent to it, *)
(* src/unnamed/part_001                                                    *)
(***************************************************************************)
\* transactions submitted in one run
MaxTxns == 2

\* accounts: public key (base58) and token id
Addrs == {"B62a", "B62b"}
TokenIds == {"MINA"}
Accounts == Addrs \X TokenIds

\* one account update: the account, how many events and actions its body
\* carries, whether its authorization kind expects a proof and whether the
\* authorization holds one
Update(addr, nEvents, nActions, kindIsProof, authIsProof) ==
  [publicKey |-> addr, tokenId |-> "MINA", events |-> nEvents,
   actions |-> nActions, kindIsProof |-> kindIsProof,
   authIsProof |-> authIsProof]

\* the account updates of the transactions that are submitted
TxnShapes ==
  { <<Update("B62a", 1, 1, TRUE, TRUE)>>,
    <<Update("B62b", 0, 1, FALSE, FALSE)>>,
    <<Update("B62a", 1, 0, FALSE, FALSE), Update("B62b", 1, 1, FALSE, FALSE)>>,
    <<Update("B62a", 1, 0, FALSE, FALSE), Update("B62a", 1, 0, TRUE, TRUE)>>,
    <<Update("B62b", 1, 0, FALSE, FALSE), Update("B62a", 1, 0, TRUE, FALSE)>> }

\* what the collaborators of sendTransaction do for one submission: whether
\* verifyTransactionLimits passes, which account update verifyAccountUpdate
\* refuses (0: none), and what ledger.applyJsonTransaction does
Verdicts == {"applied", "refusedJson", "refusedText"}
Env(limits, verifyFails, verdict) ==
  [limits |-> limits, verifyFails |-> verifyFails, verdict |-> verdict]
\* (what a collaborator would do after an earlier one threw is left out)
Envs ==
  {Env(FALSE, 0, "applied")} \cup
  {Env(TRUE, i, "applied") : i \in 1..2} \cup
  {Env(TRUE, 0, verdict) : verdict \in Verdicts}

ErrLimits == "Error: Transaction verification failed"
ErrMissingProof ==
  "The actual authorization does not match the expected authorization kind"
ErrVerify == "Error: account update verification failed"
ErrSend == "Transaction failed with errors"
ErrWait == "Transaction failed with errors:"

\* array.reverse()
Reverse(a) == [i \in 1..Len(a) |-> a[Len(a) + 1 - i]]

\* Actions.emptyActionState() and Actions.updateSequenceState(state, hash): the
\* state is the chain of everything hashed into it
emptyActionState == <<>>
updateSequenceState(state, hash) == Append(state, hash)

\* lines 137-176: the error the loop over the account updates throws, from
\* update i on ("" when it completes)
RECURSIVE verifyUpdates(_, _, _)
verifyUpdates(txn, env, i) ==
  IF i > Len(txn.accountUpdates) THEN ""
  ELSE IF txn.accountUpdates[i].kindIsProof /\ ~txn.accountUpdates[i].authIsProof
       THEN ErrMissingProof
  ELSE IF env.verifyFails = i THEN ErrVerify
  ELSE verifyUpdates(txn, env, i + 1)

\* lines 186-203: the errors collected when the ledger throws
ledgerErrorsNoFallbackMut(verdict) ==
  IF verdict = "refusedJson" THEN <<"invalidTransactionError">>
  ELSE <<>>
ledgerErrors(verdict) ==
  IF verdict = "applied" THEN <<>>
  ELSE IF verdict = "refusedJson" THEN <<"invalidTransactionError">>
  ELSE <<"fallbackErrorMessage">>

\* lines 208-235: the event store after the account updates from i on
RECURSIVE storeEvents(_, _, _)
storeEvents(store, txn, i) ==
  IF i > Len(txn.accountUpdates) THEN store
  ELSE LET u == txn.accountUpdates[i]
           a == <<u.publicKey, u.tokenId>>
           entry == [events |-> [k \in 1..u.events |-> <<txn.id, i, k>>],
                     txn |-> txn.id, update |-> i]
       IN  storeEvents(IF u.events > 0
                       THEN [store EXCEPT ![a] = Append(@, entry)]
                       ELSE store,
                       txn, i + 1)

\* lines 237-260: the action store after the account updates from i on
RECURSIVE storeActions(_, _, _)
storeActions(store, txn, i) ==
  IF i > Len(txn.accountUpdates) THEN store
  ELSE LET u == txn.accountUpdates[i]
           a == <<u.publicKey, u.tokenId>>
           storedActions == store[a]
           latestActionState ==
             IF storedActions = <<>> THEN emptyActionState
             ELSE storedActions[Len(storedActions)].hash
           acts == [k \in 1..u.actions |-> <<txn.id, i, k>>]
           entry == [actions |-> acts,
                     hash |-> updateSequenceState(latestActionState, acts)]
       IN  storeActions(IF u.actions > 0
                        THEN [store EXCEPT ![a] = Append(@, entry)]
                        ELSE store,
                        txn, i + 1)

\* an optional action state: fromActionState / endActionState of getActions
NoActionState == [defined |-> FALSE, state |-> <<>>]
ActionState(state) == [defined |-> TRUE, state |-> state]

NoRange == <<NoActionState, NoActionState>>

NoPending ==
  [status |-> "none", errors |-> <<>>, hash |-> 0, transaction |-> <<>>]
\* an outcome: what was called on what, whether it threw, what it returned
Outcome(name, txn, env, threw, error, pending, account, range, fetched) ==
  [name |-> name, txn |-> txn, env |-> env, threw |-> threw, error |-> error,
   pending |-> pending, account |-> account, range |-> range,
   fetched |-> fetched]

NoTxn == [id |-> 0, accountUpdates |-> <<>>]
NoEnv == [limits |-> TRUE, verifyFails |-> 0, verdict |-> "applied"]
NoAccount == <<"", "">>

\* sendTransaction, lines 123-307: the error thrown before the ledger is
\* reached ("" when none), and the PendingTransaction returned
sendTransactionError(txn, env) ==
  IF ~env.limits THEN ErrLimits ELSE verifyUpdates(txn, env, 1)
sendTransactionPending(txn, env) ==
  [status |-> IF env.verdict = "applied" THEN "pending" ELSE "rejected",
   errors |-> ledgerErrors(env.verdict),
   hash |-> txn.id,
   transaction |-> txn.accountUpdates]

\* createRejectedTransaction and createIncludedTransaction, part_001 lines
\* 502-539
createRejectedTransaction(pending, errors) ==
  [status |-> "rejected", errors |-> errors, hash |-> pending.hash,
   transaction |-> pending.transaction]
createIncludedTransaction(pending) ==
  [status |-> "included", errors |-> <<>>, hash |-> pending.hash,
   transaction |-> pending.transaction]

\* safeWait of a PendingTransaction, part_000 lines 288-300, and whether wait,
\* lines 274-286, throws on what safeWait resolved to
safeWait(pending) ==
  IF pending.status = "rejected"
  THEN createRejectedTransaction(pending, pending.errors)
  ELSE createIncludedTransaction(pending)
waitThrowsOnErrorsOnlyMut(resolved) == Len(resolved.errors) > 1
waitThrows(resolved) == resolved.status = "rejected"

\* currentActions.findIndex((e) => e.hash === hash): the 0-based index of the
\* first entry with that hash, -1 when there is none
findIndex(currentActions, hash) ==
  IF \E i \in 1..Len(currentActions) : currentActions[i].hash = hash
  THEN (CHOOSE i \in 1..Len(currentActions) :
          /\ currentActions[i].hash = hash
          /\ \A j \in 1..(i - 1) : currentActions[j].hash # hash) - 1
  ELSE -1

ErrFromNotFound == "getActions: fromActionState not found."
ErrEndNotFound == "getActions: endActionState not found."

\* getActions(publicKey, actionStates, tokenId), part_000 lines 344-374: the
\* error thrown ("" when none) and the entries returned.  An action state is
\* looked up only when it is given and is not the empty state (whose string
\* start is compared as undefined, and whose end returns [] at once)
getActionsError(currentActions, from, end) ==
  IF end.defined /\ end.state = emptyActionState THEN ""
  ELSE IF /\ from.defined /\ from.state # emptyActionState
          /\ findIndex(currentActions, from.state) = -1
       THEN ErrFromNotFound
  ELSE IF end.defined /\ findIndex(currentActions, end.state) = -1
       THEN ErrEndNotFound
  ELSE ""
getActions(currentActions, from, end) ==
  LET startIndex == IF from.defined /\ from.state # emptyActionState
                    THEN findIndex(currentActions, from.state) + 1
                    ELSE 0
      endIndex == IF end.defined
                  THEN findIndex(currentActions, end.state) + 1
                  ELSE Len(currentActions)
  IN  IF end.defined /\ end.state = emptyActionState THEN <<>>
      ELSE SubSeq(currentActions, startIndex + 1, endIndex)

\* the state after construction, lines 53-79
ChainInit ==
  /\ ledger = <<>>
  /\ lbEvents = [a \in Accounts |-> <<>>]
  /\ lbActions = [a \in Accounts |-> <<>>]
  /\ sent = 0
  /\ pendings = <<>>
  /\ lbOut = Outcome("none", NoTxn, NoEnv, FALSE, "", NoPending, NoAccount, NoRange, <<>>)

(***************************************************************************)
(* On-chain state of a smart contract, src/src/lib/state.ts                *)
(***************************************************************************)
\* witness variables created in one run
MaxVars == 2

\* contract instances (of one class), the keys the class declares with
\* @state, in the order of declaration, and State objects
Instances == {"zkapp1", "zkapp2"}
KeyOrder == <<"x", "y">>
Keys == {KeyOrder[i] : i \in 1..Len(KeyOrder)}
StateObjs == {"s1", "s2"}
NoState == ""

\* `_contract` of a State that is not attached (undefined)
NoContract ==
  [key |-> "", instance |-> "", wasConstrained |-> FALSE, wasRead |-> FALSE,
   cachedVariable |-> Undefined]
\* `_contract` as the setter creates it, lines 126-134
NewContract(key, instance) ==
  [key |-> key, instance |-> instance, wasConstrained |-> FALSE,
   wasRead |-> FALSE, cachedVariable |-> Undefined]

ErrStateAssigned == "A State should only be assigned once to a SmartContract"
ErrKeyAssigned == "A @state should only be assigned once"
ErrUnattached ==
  "can only be called when the State is assigned to a SmartContract @state."
ErrGetAccount == "get() failed"
ErrNoPrecondition ==
  "You used get() without adding a precondition that links it to the actual on-chain state."

\* the setter of a @state property, lines 120-125: the error it throws for the
\* State v assigned to the key of the instance ("" when none)
setterErrorNoStateCheckMut(instance, key, v) ==
  IF slots[<<instance, key>>] # NoState THEN ErrKeyAssigned
  ELSE ""
setterError(instance, key, v) ==
  IF contract[v] # NoContract THEN ErrStateAssigned
  ELSE IF slots[<<instance, key>>] # NoState THEN ErrKeyAssigned
  ELSE ""

\* get(), lines 259-264: the cached variable is returned
getCached(s, inCheckedComputation) ==
  contract[s].cachedVariable # Undefined /\ inCheckedComputation

\* getStateContexts(sc), lines 437-444: the State objects the instance holds
\* under the declared keys
getStateContexts(sc) == {slots[<<sc, k>>] : k \in Keys} \ {NoState}

\* cleanStatePrecondition(sc), lines 428-435: `_contract` of every State
cleanStatePreconditionKeepCacheMut(sc) ==
  [s \in StateObjs |->
     IF s \in getStateContexts(sc)
     THEN [contract[s] EXCEPT !.wasRead = FALSE, !.wasConstrained = FALSE]
     ELSE contract[s]]
cleanStatePrecondition(sc) ==
  [s \in StateObjs |->
     IF s \in getStateContexts(sc)
     THEN [contract[s] EXCEPT !.wasRead = FALSE, !.wasConstrained = FALSE,
                              !.cachedVariable = Undefined]
     ELSE contract[s]]

\* assertStatePrecondition(sc), lines 414-422: the keys, in the order of
\* declaration, whose State was read and not constrained
unconstrainedReadsIgnoringReadMut(sc) ==
  SelectSeq(KeyOrder,
            LAMBDA k : /\ slots[<<sc, k>>] # NoState
                       /\ ~contract[slots[<<sc, k>>]].wasConstrained)
unconstrainedReads(sc) ==
  SelectSeq(KeyOrder,
            LAMBDA k : /\ slots[<<sc, k>>] # NoState
                       /\ contract[slots[<<sc, k>>]].wasRead
                       /\ ~contract[slots[<<sc, k>>]].wasConstrained)

\* what happened to a State since it was attached or last cleaned: the
\* variables get() returned, whether some get() ran outside a checked
\* computation, whether a require call was made, and the number of variables
\* that existed when the period began
NewPeriod(n) ==
  [returned |-> {}, unchecked |-> FALSE, required |-> FALSE, freshFrom |-> n]

StOutcome(name, sc, key, s, threw, error, var, checked, cached) ==
  [name |-> name, sc |-> sc, key |-> key, state |-> s, threw |-> threw,
   error |-> error, var |-> var, checked |-> checked, cached |-> cached]

\* no State is attached, lines 198-200
StateInit ==
  /\ contract = [s \in StateObjs |-> NoContract]
  /\ slots = [ik \in Instances \X Keys |-> NoState]
  /\ preconditions = {}
  /\ nextVar = 0
  /\ period = [s \in StateObjs |-> NewPeriod(0)]
  /\ stOut = StOutcome("none", "", "", NoState, FALSE, "", Undefined, FALSE,
                       FALSE)

(***************************************************************************)
(* The transaction context and createTransaction, part_001 lines 284-390   *)
(***************************************************************************)
\* createTransaction is called at most MaxRuns times at top level
MaxRuns == 3

\* currentTransaction of transaction-context.js, a stack of entered contexts:
\* has(), enter(context) (which returns the id of the new entry) and leave(id)
hasNeverMut(c) == FALSE
has(c) == c # <<>>
enter(c, id, context) == Append(c, [id |-> id, context |-> context])
leave(c, id) ==
  IF c # <<>> /\ c[Len(c)].id = id THEN SubSeq(c, 1, Len(c) - 1) ELSE c

\* the fee payers createTransaction is called with: none, or a sender
NoSender == ""
Senders == {NoSender, "B62a"}
FetchModes == {"cached", "test"}
NumbersOfRuns == {0, 1}

\* the context entered at lines 317-323
TransactionContext(sender, fetchMode, numberOfRuns) ==
  [sender |-> sender, fetchMode |-> fetchMode, numberOfRuns |-> numberOfRuns]

ErrNested == "Cannot start new transaction within another transaction"
ErrRun == "error thrown by f"
ErrPreconditionInvariants == "error thrown by assertPreconditionInvariants"
ErrSenderAccount == "getAccount: Could not find account for public key"

\* an outcome: which step of createTransaction ran last for which context
\* id (0 for a call that entered none), and what it threw
TxOutcome(step, id, threw, error) ==
  [name |-> "createTransaction", step |-> step, id |-> id, threw |-> threw,
   error |-> error]

\* no transaction is being created
TxnInit ==
  /\ ctx = <<>>
  /\ nextId = 0
  /\ txPc = "idle"
  /\ txOut = [name |-> "none", step |-> "", id |-> 0, threw |-> FALSE,
              error |-> ""]

(***************************************************************************)
(* Calls the model enumerates                                              *)
(***************************************************************************)
CCC == <<TRUE, TRUE, TRUE>>
VVV == <<FALSE, FALSE, FALSE>>
CVC == <<TRUE, FALSE, TRUE>>
VVC == <<FALSE, FALSE, TRUE>>

\* the three-limb element of value v whose limbs have the kinds k
Elem(v, k) == [i \in 1..3 |-> [v |-> split(v)[i], c |-> k[i]]]

\* operand values: the small ones and those around the limb boundaries
Vals ==
  (0..MaxVal) \cup {lMask, 2^L, 2^L2 - 1, 2^L2, 2^L2 + 1,
                    2^ModulusBits - 1, 2^ModulusBits, 2^L3 - 1}
\* moduli: small ones, around 2^L2, and around the ceiling
Moduli ==
  (0..MaxVal) \cup {2^L2 - 1, 2^L2, 2^L2 + 1, 2^L2 + 2^(L2 - 1),
                    2^ModulusBits - 1, 2^ModulusBits, 2^ModulusBits + 1}
KindPairs == {<<CCC, CCC>>, <<VVV, VVV>>, <<CCC, CVC>>, <<VVC, CCC>>}

\* sumChain: operand values, moduli and signs
SumVals == {0, 1, 5, 2^L2 - 1, 2^L2 + 1, 2^L3 - 1}
SumTail == {1, 2^L3 - 1}
SumModuli == {0, 1, 7, 2^L2, 2^L2 + 2, 2^L3 - 1}
Signs == {1, -1}

Call(name, x, sign, f, azoz, n, lo) ==
  [name |-> name, x |-> x, sign |-> sign, f |-> f,
   allowZeroOverZero |-> azoz, n |-> n, pair |-> lo]

MulCalls ==
  \E a \in Vals, b \in Vals, f \in Moduli, k \in KindPairs :
    op = Call("mul", <<Elem(a, k[1]), Elem(b, k[2])>>, <<>>, f, FALSE, 0, <<>>)
InvCalls ==
  \E a \in Vals, f \in Moduli, k \in {CCC, VVV, CVC} :
    op = Call("inv", <<Elem(a, k)>>, <<>>, f, FALSE, 0, <<>>)
DivCalls ==
  \E a \in Vals, b \in Vals, f \in Moduli, k \in KindPairs, z \in BOOLEAN :
    op = Call("div", <<Elem(a, k[1]), Elem(b, k[2])>>, <<>>, f, z, 0, <<>>)

\* operand lists of length n: the first three range over SumVals
SumOperands(n) ==
  {v \in [1..n -> SumVals] : \A i \in 1..n : i > 3 => v[i] \in SumTail}
SumKinds(n) ==
  {[i \in 1..n |-> CCC], [i \in 1..n |-> VVV],
   [i \in 1..n |-> IF i = n THEN CVC ELSE CCC]}
SumChainCalls ==
  \E n \in 0..MaxSigns :
    \E v \in SumOperands(n + 1), s \in [1..n -> Signs], f \in SumModuli,
       k \in {CCC, VVV} :
      op = Call("sumChain", [i \in 1..(n + 1) |-> Elem(v[i], k)], s, f,
                FALSE, 0, <<>>)
\* mixed kinds, on fewer values
SumChainMixedCalls ==
  \E n \in 0..MaxSigns :
    \E v \in [1..(n + 1) -> {1, 2^L2 + 1}], s \in [1..n -> Signs],
       f \in {7, 2^L2 + 2}, k \in SumKinds(n + 1) :
      op = Call("sumChain", [i \in 1..(n + 1) |-> Elem(v[i], k[i])], s, f,
                FALSE, 0, <<>>)
\* operand and sign lists whose lengths do not match
SumChainBadCalls ==
  \E nx \in 0..(MaxSigns + 1), ns \in 0..MaxSigns, k \in {CCC, VVV} :
    /\ nx # ns + 1
    /\ op = Call("sumChain", [i \in 1..nx |-> Elem(1, k)], [i \in 1..ns |-> 1],
                 7, FALSE, 0, <<>>)

\* codec calls: values up to just beyond three (two) limbs, and limbs up to
\* just beyond the limb width
FromCalls ==
  \E n \in 0..(2^L3 + 1) : op = Call("from", <<>>, <<>>, 0, FALSE, n, <<>>)
ToBigintCalls ==
  \E x \in (0..2^L) \X (0..2^L) \X (0..2^L) :
    op = Call("toBigint", <<Field3(x)>>, <<>>, 0, FALSE, 0, <<>>)
Split2Calls ==
  \E n \in 0..(2^L2 + 1) : op = Call("split2", <<>>, <<>>, 0, FALSE, n, <<>>)
Collapse2Calls ==
  \E x \in (0..2^L) \X (0..2^L) :
    op = Call("collapse2", <<>>, <<>>, 0, FALSE, 0, x)

\* weakBound on every native field value and every modulus up to just beyond
\* three limbs
WeakBoundCalls ==
  \E n \in 0..(p - 1), f \in Moduli \cup {2^L3 - 1, 2^L3} :
    op = Call("weakBound", <<>>, <<>>, f, FALSE, n, <<>>)

Calls ==
  \/ MulCalls
  \/ InvCalls
  \/ DivCalls
  \/ SumChainCalls
  \/ SumChainMixedCalls
  \/ SumChainBadCalls
  \/ FromCalls
  \/ ToBigintCalls
  \/ Split2Calls
  \/ Collapse2Calls
  \/ WeakBoundCalls

Init ==
  /\ pc = "call"
  /\ Calls
  /\ ret = <<>>
  /\ big = Undefined
  /\ pair = <<>>
  /\ err = ""
  /\ events = <<>>
  /\ ChainInit
  /\ StateInit
  /\ TxnInit

(***************************************************************************)
(* Actions: one per facade operation, foreign-field.ts:26-53               *)
(***************************************************************************)
\* the call returns or throws
Finish(out) ==
  /\ pc' = "done"
  /\ ret' = out.ret
  /\ err' = out.err
  /\ events' = out.events
  /\ UNCHANGED <<op, big, pair, chainVars, stateVars, txnVars>>

SumChain ==
  /\ pc = "call" /\ op.name = "sumChain"
  /\ Finish(sumChain(op.x, op.sign, op.f))

Mul ==
  /\ pc = "call" /\ op.name = "mul"
  /\ Finish(multiply(op.x[1], op.x[2], op.f))

Inv ==
  /\ pc = "call" /\ op.name = "inv"
  /\ Finish(inverse(op.x[1], op.f))

Div ==
  /\ pc = "call" /\ op.name = "div"
  /\ Finish(divide(op.x[1], op.x[2], op.f, op.allowZeroOverZero))

\* ForeignField.from: on the argument, or on what toBigint returned
FromBigint ==
  \/ /\ pc = "call" /\ op.name = "from"
     /\ ret' = From(op.n)
     /\ pc' = "done"
     /\ UNCHANGED <<op, big, pair, err, events, chainVars, stateVars, txnVars>>
  \/ /\ pc = "done" /\ op.name = "toBigint"
     /\ ret' = From(big)
     /\ pc' = "back"
     /\ UNCHANGED <<op, big, pair, err, events, chainVars, stateVars, txnVars>>

\* ForeignField.toBigint: on the argument, or on what from returned
ToBigintOf ==
  \/ /\ pc = "call" /\ op.name = "toBigint"
     /\ big' = ToBigint(op.x[1])
     /\ pc' = "done"
     /\ UNCHANGED <<op, ret, pair, err, events, chainVars, stateVars, txnVars>>
  \/ /\ pc = "done" /\ op.name = "from"
     /\ big' = ToBigint(ret)
     /\ pc' = "back"
     /\ UNCHANGED <<op, ret, pair, err, events, chainVars, stateVars, txnVars>>

\* split2: on the argument, or on what collapse2 returned
Split2 ==
  \/ /\ pc = "call" /\ op.name = "split2"
     /\ pair' = split2(op.n)
     /\ pc' = "done"
     /\ UNCHANGED <<op, ret, big, err, events, chainVars, stateVars, txnVars>>
  \/ /\ pc = "done" /\ op.name = "collapse2"
     /\ pair' = split2(big)
     /\ pc' = "back"
     /\ UNCHANGED <<op, ret, big, err, events, chainVars, stateVars, txnVars>>

\* collapse2: on the argument, or on what split2 returned
Collapse2 ==
  \/ /\ pc = "call" /\ op.name = "collapse2"
     /\ big' = collapse2(op.pair)
     /\ pc' = "done"
     /\ UNCHANGED <<op, ret, pair, err, events, chainVars, stateVars, txnVars>>
  \/ /\ pc = "done" /\ op.name = "split2"
     /\ big' = collapse2(pair)
     /\ pc' = "back"
     /\ UNCHANGED <<op, ret, pair, err, events, chainVars, stateVars, txnVars>>

\* weakBound on the field value op.n; the bounded value is left in ret
WeakBound ==
  /\ pc = "call" /\ op.name = "weakBound"
  /\ ret' = <<weakBound(Field(op.n), op.f)>>
  /\ pc' = "done"
  /\ UNCHANGED <<op, big, pair, err, events, chainVars, stateVars, txnVars>>

Next ==
  \/ SumChain
  \/ Mul
  \/ Inv
  \/ Div
  \/ FromBigint
  \/ ToBigintOf
  \/ Split2
  \/ Collapse2
  \/ WeakBound

Spec == Init /\ [][Next]_vars

(***************************************************************************)
(* Actions of LocalBlockchain and of a transaction sent to it              *)
(***************************************************************************)
\* the facade of the foreign field is not called
NoCall == Call("none", <<>>, <<>>, 0, FALSE, 0, <<>>)
ffIdle ==
  /\ pc = "idle"
  /\ op = NoCall
  /\ ret = <<>>
  /\ big = Undefined
  /\ pair = <<>>
  /\ err = ""
  /\ events = <<>>

ChainSpecInit ==
  /\ ffIdle
  /\ ChainInit
  /\ StateInit
  /\ TxnInit

\* Transaction.send(), part_001 lines 416-426, on what sendTransaction
\* returned: it throws
sendThrows(pending) == Len(pending.errors) > 0

\* fetchEvents(publicKey, tokenId), part_000 lines 330-336: reversedEvents
fetchEvents(a) == Reverse(lbEvents[a])

\* lines 206-235: the event store after sendTransaction went past the ledger,
\* whatever the ledger did
eventsAfterOnlyWhenAppliedMut(txn, env) ==
  IF env.verdict = "applied" THEN storeEvents(lbEvents, txn, 1) ELSE lbEvents
eventsAfter(txn, env) == storeEvents(lbEvents, txn, 1)

\* sendTransaction(txn), part_000 lines 123-307, called directly (name
\* "sendTransaction"), by Transaction.send() (name "send", part_001 lines
\* 416-426) or by Transaction.safeSend() (name "safeSend", lines 427-436)
Submit(name, txn, env) ==
  LET error == sendTransactionError(txn, env)
      pending == sendTransactionPending(txn, env)
  IN  /\ sent' = sent + 1
      /\ IF error # ""
         THEN /\ UNCHANGED <<ledger, lbEvents, lbActions, pendings>>
              /\ lbOut' = Outcome(name, txn, env, TRUE, error, NoPending,
                                  NoAccount, NoRange, <<>>)
         ELSE /\ ledger' = IF env.verdict = "applied"
                           THEN Append(ledger, txn.id) ELSE ledger
              /\ lbEvents' = eventsAfter(txn, env)
              /\ lbActions' = storeActions(lbActions, txn, 1)
              /\ pendings' = IF name = "sendTransaction" \/ ~sendThrows(pending)
                              THEN Append(pendings, pending)
                              ELSE pendings
              /\ lbOut' =
                   IF name = "send" /\ sendThrows(pending)
                   THEN Outcome(name, txn, env, TRUE, ErrSend, NoPending,
                                NoAccount, NoRange, <<>>)
                   ELSE IF name = "safeSend" /\ sendThrows(pending)
                   THEN Outcome(name, txn, env, FALSE, "",
                                createRejectedTransaction(pending, pending.errors),
                                NoAccount, NoRange, <<>>)
                   ELSE Outcome(name, txn, env, FALSE, "", pending, NoAccount, NoRange,
                                <<>>)

SendTransaction ==
  /\ sent < MaxTxns
  /\ \E shape \in TxnShapes, env \in Envs :
       Submit("sendTransaction", [id |-> sent + 1, accountUpdates |-> shape],
              env)
  /\ UNCHANGED <<ffVars, stateVars, txnVars>>

Send ==
  /\ sent < MaxTxns
  /\ \E shape \in TxnShapes, env \in Envs :
       Submit("send", [id |-> sent + 1, accountUpdates |-> shape], env)
  /\ UNCHANGED <<ffVars, stateVars, txnVars>>

SafeSend ==
  /\ sent < MaxTxns
  /\ \E shape \in TxnShapes, env \in Envs :
       Submit("safeSend", [id |-> sent + 1, accountUpdates |-> shape], env)
  /\ UNCHANGED <<ffVars, stateVars, txnVars>>

\* pendingTransaction.wait(), part_000 lines 274-286
Wait ==
  /\ \E i \in 1..Len(pendings) :
       LET resolved == safeWait(pendings[i])
       IN  lbOut' = IF waitThrows(resolved)
                    THEN Outcome("wait", NoTxn, NoEnv, TRUE, ErrWait,
                                 [NoPending EXCEPT !.hash = pendings[i].hash],
                                 NoAccount, NoRange, <<>>)
                    ELSE Outcome("wait", NoTxn, NoEnv, FALSE, "", resolved,
                                 NoAccount, NoRange, <<>>)
  /\ UNCHANGED <<ledger, lbEvents, lbActions, sent, pendings, ffVars,
                 stateVars, txnVars>>

\* pendingTransaction.safeWait(), part_000 lines 288-300
SafeWait ==
  /\ \E i \in 1..Len(pendings) :
       lbOut' = Outcome("safeWait", NoTxn, NoEnv, FALSE, "",
                        safeWait(pendings[i]), NoAccount, NoRange, <<>>)
  /\ UNCHANGED <<ledger, lbEvents, lbActions, sent, pendings, ffVars,
                 stateVars, txnVars>>

\* reverse() reverses the stored array in place and returns it
FetchEvents ==
  /\ \E a \in Accounts :
       /\ lbEvents' = [lbEvents EXCEPT ![a] = fetchEvents(a)]
       /\ lbOut' = Outcome("fetchEvents", NoTxn, NoEnv, FALSE, "", NoPending,
                           a, NoRange, fetchEvents(a))
  /\ UNCHANGED <<ledger, lbActions, sent, pendings, ffVars, stateVars, txnVars>>

\* the action states a caller can hold: the empty state and the hash of the
\* latest entry stored for any account
KnownActionStates ==
  {ActionState(emptyActionState)} \cup
  {ActionState(lbActions[a][Len(lbActions[a])].hash) :
     a \in {b \in Accounts : lbActions[b] # <<>>}}

\* the actionStates getActions is called with: none, or one of the two ends
ActionRanges ==
  {NoRange, <<NoActionState, ActionState(emptyActionState)>>} \cup
  {<<h, NoActionState>> : h \in KnownActionStates} \cup
  {<<NoActionState, h>> : h \in KnownActionStates}

\* getActions(publicKey, actionStates, tokenId), part_000 lines 344-374, and
\* fetchActions, which returns what getActions does
GetActions ==
  /\ \E a \in Accounts, range \in ActionRanges :
       LET error == getActionsError(lbActions[a], range[1], range[2])
       IN  lbOut' =
             IF error # ""
             THEN Outcome("getActions", NoTxn, NoEnv, TRUE, error, NoPending,
                          a, range, <<>>)
             ELSE Outcome("getActions", NoTxn, NoEnv, FALSE, "", NoPending,
                          a, range,
                          getActions(lbActions[a], range[1], range[2]))
  /\ UNCHANGED <<ledger, lbEvents, lbActions, sent, pendings, ffVars,
                 stateVars, txnVars>>

ChainNext ==
  \/ SendTransaction
  \/ Send
  \/ SafeSend
  \/ Wait
  \/ SafeWait
  \/ FetchEvents
  \/ GetActions

ChainSpec == ChainSpecInit /\ [][ChainNext]_vars

(***************************************************************************)
(* Actions on the State objects of smart contracts, state.ts               *)
(***************************************************************************)
StateSpecInit ==
  /\ ffIdle
  /\ ChainInit
  /\ StateInit
  /\ TxnInit

\* instance[key] = v: the setter defined by @state, lines 120-136
Assign ==
  /\ \E instance \in Instances, key \in Keys, v \in StateObjs :
       LET error == setterError(instance, key, v)
       IN  /\ IF error # ""
              THEN UNCHANGED <<contract, slots, period>>
              ELSE /\ contract' = [contract EXCEPT ![v] = NewContract(key, instance)]
                   /\ slots' = [slots EXCEPT ![<<instance, key>>] = v]
                   /\ period' = [period EXCEPT ![v] = NewPeriod(nextVar)]
           /\ stOut' = StOutcome("assign", instance, key, v, error # "", error,
                                 Undefined, FALSE, FALSE)
  /\ UNCHANGED <<preconditions, nextVar, ffVars, chainVars, txnVars>>

\* get(), lines 251-315, followed by requireEquals of what it returned when
\* `require` is set (getAndRequireEquals, lines 317-321).  inCheckedComputation
\* is what Provable.inCheckedComputation() answers, found whether
\* Mina.getAccount finds the account
Read(name, s, inCheckedComputation, found, require) ==
  LET c == contract[s]
      ik == <<c.instance, c.key>>
      cached == getCached(s, inCheckedComputation)
      var == IF cached THEN c.cachedVariable ELSE nextVar
      error == IF c = NoContract THEN ErrUnattached
               ELSE IF ~cached /\ ~found THEN ErrGetAccount
               ELSE ""
  IN  /\ cached \/ nextVar < MaxVars
      /\ IF error # ""
         THEN /\ UNCHANGED <<contract, preconditions, nextVar, period>>
              /\ stOut' = StOutcome(name, c.instance, c.key, s, TRUE, error,
                                    Undefined, inCheckedComputation, FALSE)
         ELSE /\ contract' =
                   [contract EXCEPT ![s].wasRead = TRUE,
                                    ![s].cachedVariable = var,
                                    ![s].wasConstrained = @ \/ require]
              /\ nextVar' = IF cached THEN nextVar ELSE nextVar + 1
              /\ preconditions' =
                   IF require THEN preconditions \cup {ik} ELSE preconditions
              /\ period' =
                   [period EXCEPT ![s].returned = @ \cup {var},
                                  ![s].unchecked = @ \/ ~inCheckedComputation,
                                  ![s].required = @ \/ require]
              /\ stOut' = StOutcome(name, c.instance, c.key, s, FALSE, "", var,
                                    inCheckedComputation, cached)

Get ==
  /\ \E s \in StateObjs, inCheckedComputation \in BOOLEAN, found \in BOOLEAN :
       Read("get", s, inCheckedComputation, found, FALSE)
  /\ UNCHANGED <<slots, ffVars, chainVars, txnVars>>

GetAndRequireEquals ==
  /\ \E s \in StateObjs, inCheckedComputation \in BOOLEAN, found \in BOOLEAN :
       Read("getAndRequireEquals", s, inCheckedComputation, found, TRUE)
  /\ UNCHANGED <<slots, ffVars, chainVars, txnVars>>

\* requireEquals(state), lines 218-233, and requireNothing(), lines 239-245
Require(name, s, precondition) ==
  LET c == contract[s]
  IN  IF c = NoContract
      THEN /\ UNCHANGED <<contract, preconditions, period>>
           /\ stOut' = StOutcome(name, "", "", s, TRUE, ErrUnattached,
                                 Undefined, FALSE, FALSE)
      ELSE /\ contract' = [contract EXCEPT ![s].wasConstrained = TRUE]
           /\ preconditions' =
                IF precondition THEN preconditions \cup {<<c.instance, c.key>>}
                ELSE preconditions
           /\ period' = [period EXCEPT ![s].required = TRUE]
           /\ stOut' = StOutcome(name, c.instance, c.key, s, FALSE, "",
                                 Undefined, FALSE, FALSE)

RequireEquals ==
  /\ \E s \in StateObjs : Require("requireEquals", s, TRUE)
  /\ UNCHANGED <<slots, nextVar, ffVars, chainVars, txnVars>>

RequireNothing ==
  /\ \E s \in StateObjs : Require("requireNothing", s, FALSE)
  /\ UNCHANGED <<slots, nextVar, ffVars, chainVars, txnVars>>

\* the periods after the States of sc were cleaned
cleanedPeriods(sc) ==
  [s \in StateObjs |->
     IF s \in getStateContexts(sc) THEN NewPeriod(nextVar) ELSE period[s]]

\* assertStatePrecondition(sc), lines 412-426
AssertStatePrecondition ==
  /\ \E sc \in Instances :
       LET keys == unconstrainedReads(sc)
       IN  /\ contract' = cleanStatePrecondition(sc)
           /\ period' = cleanedPeriods(sc)
           /\ stOut' =
                IF keys # <<>>
                THEN StOutcome("assertStatePrecondition", sc, keys[1], NoState,
                               TRUE, ErrNoPrecondition, Undefined, FALSE,
                               FALSE)
                ELSE StOutcome("assertStatePrecondition", sc, "", NoState,
                               FALSE, "", Undefined, FALSE, FALSE)
  /\ UNCHANGED <<slots, preconditions, nextVar, ffVars, chainVars, txnVars>>

\* cleanStatePrecondition(sc), lines 428-435
CleanStatePrecondition ==
  /\ \E sc \in Instances :
       /\ contract' = cleanStatePrecondition(sc)
       /\ period' = cleanedPeriods(sc)
       /\ stOut' = StOutcome("cleanStatePrecondition", sc, "", NoState, FALSE,
                             "", Undefined, FALSE, FALSE)
  /\ UNCHANGED <<slots, preconditions, nextVar, ffVars, chainVars, txnVars>>

StateNext ==
  \/ Assign
  \/ Get
  \/ GetAndRequireEquals
  \/ RequireEquals
  \/ RequireNothing
  \/ AssertStatePrecondition
  \/ CleanStatePrecondition

StateSpec == StateSpecInit /\ [][StateNext]_vars

(***************************************************************************)
(* Actions of createTransaction, part_001 lines 284-390                    *)
(***************************************************************************)
TxnSpecInit ==
  /\ ffIdle
  /\ ChainInit
  /\ StateInit
  /\ TxnInit

\* lines 294-323: the call of createTransaction up to the point where f runs
Begin(sender, fetchMode, numberOfRuns) ==
  IF has(ctx)
  THEN /\ txOut' = TxOutcome("start", 0, TRUE, ErrNested)
       /\ UNCHANGED <<ctx, nextId, txPc>>
  ELSE /\ nextId < MaxRuns
       /\ ctx' = enter(ctx, nextId + 1,
                       TransactionContext(sender, fetchMode, numberOfRuns))
       /\ nextId' = nextId + 1
       /\ txPc' = "f"
       /\ txOut' = TxOutcome("start", nextId + 1, FALSE, "")

\* createTransaction is called while no other call of it is running
CreateTransaction ==
  /\ txPc = "idle"
  /\ \E sender \in Senders, fetchMode \in FetchModes,
        numberOfRuns \in NumbersOfRuns :
       Begin(sender, fetchMode, numberOfRuns)
  /\ UNCHANGED <<ffVars, chainVars, stateVars>>

\* createTransaction is called while f of another call of it is running
\* (by f itself, or by the caller while f is awaited)
CreateTransactionWithin ==
  /\ txPc = "f"
  /\ \E sender \in Senders, fetchMode \in FetchModes,
        numberOfRuns \in NumbersOfRuns :
       Begin(sender, fetchMode, numberOfRuns)
  /\ UNCHANGED <<ffVars, chainVars, stateVars>>

\* lines 325-341: f() resolves or throws
RunCircuit ==
  /\ txPc = "f"
  /\ \E fThrows \in BOOLEAN :
       LET transactionId == ctx[Len(ctx)].id
       IN  IF fThrows
           THEN /\ ctx' = leave(ctx, transactionId)
                /\ txPc' = "idle"
                /\ txOut' = TxOutcome("f", transactionId, TRUE, ErrRun)
           ELSE /\ txPc' = "preconditions"
                /\ txOut' = TxOutcome("f", transactionId, FALSE, "")
                /\ UNCHANGED ctx
  /\ UNCHANGED <<nextId, ffVars, chainVars, stateVars>>

\* lines 343-355: the account updates are flattened and their precondition
\* invariants checked
CheckPreconditionInvariants ==
  /\ txPc = "preconditions"
  /\ \E invariantFails \in BOOLEAN :
       LET transactionId == ctx[Len(ctx)].id
       IN  IF invariantFails
           THEN /\ ctx' = leave(ctx, transactionId)
                /\ txPc' = "idle"
                /\ txOut' = TxOutcome("preconditions", transactionId, TRUE,
                                      ErrPreconditionInvariants)
           ELSE /\ txPc' = "feePayer"
                /\ txOut' = TxOutcome("preconditions", transactionId, FALSE, "")
                /\ UNCHANGED ctx
  /\ UNCHANGED <<nextId, ffVars, chainVars, stateVars>>

\* lines 357-389: the fee payer is built (getAccount, part_000 lines 105-118,
\* throws when the ledger has no account of the sender), the context is left
\* and the transaction returned
BuildFeePayer ==
  /\ txPc = "feePayer"
  /\ \E senderHasAccount \in BOOLEAN :
       LET transactionId == ctx[Len(ctx)].id
           sender == ctx[Len(ctx)].context.sender
       IN  IF sender # NoSender /\ ~senderHasAccount
           THEN /\ txOut' = TxOutcome("feePayer", transactionId, TRUE,
                                      ErrSenderAccount)
                /\ UNCHANGED ctx
           ELSE /\ ctx' = leave(ctx, transactionId)
                /\ txOut' = TxOutcome("return", transactionId, FALSE, "")
  /\ txPc' = "idle"
  /\ UNCHANGED <<nextId, ffVars, chainVars, stateVars>>

TxnNext ==
  \/ CreateTransaction
  \/ CreateTransactionWithin
  \/ RunCircuit
  \/ CheckPreconditionInvariants
  \/ BuildFeePayer

TxnSpec == TxnSpecInit /\ [][TxnNext]_vars

(***************************************************************************)
(* Vocabulary of the properties                                            *)
(***************************************************************************)
\* the integer a limb triple stands for
Value(x) == x[1].v + x[2].v * 2^L + x[3].v * 2^(2 * L)
\* every limb is inside [0, 2^L)
RangeChecked(x) == \A i \in 1..3 : 0 <= x[i].v /\ x[i].v < 2^L
IsZeroTriple(x) == x[1].v = 0 /\ x[2].v = 0 /\ x[3].v = 0

RECURSIVE GCD(_, _)
GCD(a, b) == IF b = 0 THEN a ELSE GCD(b, a % b)
\* some residue multiplies x to remainder 1
Invertible(x, f) == \E z \in 0..(f - 1) : (x * z) % f = 1

\* the modulus ceiling of multiply, inverse and divide
Ceiling == 2^ModulusBits
ValidModulus == 0 < op.f /\ op.f < Ceiling

Returned(name) == pc = "done" /\ op.name = name
ConstantPath == \A i \in 1..Len(op.x) : isConstant3(op.x[i])
ProvablePath == ~ConstantPath
OperandsRangeChecked == \A i \in 1..Len(op.x) : RangeChecked(op.x[i])

\* the assertions and range checks emitted, and whether the witness meets them
Checks == {i \in 1..Len(events) : events[i].type \in {"assert", "rangeCheck"}}
Asserts == {i \in 1..Len(events) : events[i].type = "assert"}
AllChecksHold == \A i \in Checks : events[i].ok
SomeAssertFails == \E i \in Asserts : ~events[i].ok

(***************************************************************************)
(* Multiplication                                                          *)
(***************************************************************************)
\* C1: for 0 < f < 2^259 (the ceiling) and x, y < f, mul returns without
\* error a triple of limbs below 2^L that decodes to (x * y) mod f, on the
\* constant path and for the witnesses of the provable path.
C1_MulIsProductModF ==
  (Returned("mul") /\ ValidModulus
   /\ Value(op.x[1]) < op.f /\ Value(op.x[2]) < op.f)
  => /\ err = ""
     /\ Len(ret) = 3
     /\ RangeChecked(ret)
     /\ Value(ret) = (Value(op.x[1]) * Value(op.x[2])) % op.f

\* a provable multiplication below a three-limb modulus that had to reduce
C1_Witness ==
  /\ Returned("mul") /\ ProvablePath /\ ValidModulus /\ err = ""
  /\ op.f >= 2^L2
  /\ Value(op.x[1]) < op.f /\ Value(op.x[2]) < op.f
  /\ Value(op.x[1]) * Value(op.x[2]) >= 2 * op.f
  /\ Value(ret) > 0

(***************************************************************************)
(* Division and inversion                                                  *)
(***************************************************************************)
\* C2: for y invertible modulo f, div returns without error a triple z that
\* decodes to x * y^-1 mod f, and mul(z, y, f) is congruent to x modulo f;
\* on the constant path and for the witness of the provable path.
C2_DivIsQuotientModF ==
  (Returned("div") /\ ValidModulus /\ Invertible(Value(op.x[2]), op.f))
  => /\ err = ""
     /\ Len(ret) = 3
     /\ RangeChecked(ret)
     /\ \E yInv \in 0..(op.f - 1) :
          /\ (Value(op.x[2]) * yInv) % op.f = 1
          /\ Value(ret) = (Value(op.x[1]) * yInv) % op.f
     /\ LET zy == multiply(ret, op.x[2], op.f)
        IN  zy.err = "" /\ Value(zy.ret) % op.f = Value(op.x[1]) % op.f

\* a provable division of an unreduced x by an invertible y other than 1
C2_Witness ==
  /\ Returned("div") /\ ProvablePath /\ ValidModulus /\ err = ""
  /\ Invertible(Value(op.x[2]), op.f)
  /\ Value(op.x[2]) % op.f > 1
  /\ Value(op.x[1]) > op.f
  /\ Value(ret) > 1

\* C3: for x invertible modulo f, mul(x, inv(x, f), f) decodes to 1, and on
\* the provable path the witnessed inverse satisfies the two emitted
\* assertions r01 = 1 and r2 = 0.
C3_InvTimesXIsOne ==
  (Returned("inv") /\ ValidModulus /\ Invertible(Value(op.x[1]), op.f))
  => /\ err = ""
     /\ Len(ret) = 3
     /\ LET m == multiply(op.x[1], ret, op.f)
        IN  m.err = "" /\ Value(m.ret) = 1
     /\ ProvablePath =>
          /\ Cardinality(Asserts) = 2
          /\ \E i, j \in Asserts :
               /\ i < j
               /\ events[i].name = "assertEquals" /\ events[i].args[2].v = 1
               /\ events[j].name = "assertEquals" /\ events[j].args[2].v = 0
               /\ events[i].ok /\ events[j].ok

\* a provable inversion of an unreduced x whose inverse fills the high limb
C3_Witness ==
  /\ Returned("inv") /\ ProvablePath /\ ValidModulus /\ err = ""
  /\ Invertible(Value(op.x[1]), op.f)
  /\ Value(op.x[1]) > 1
  /\ ret[3].v > 0
  /\ AllChecksHold

\* C4: on the provable path of divide with allowZeroOverZero = false, for
\* every range-checked y congruent to 0 modulo f (0, f or another multiple of
\* f) and every x, the emitted assertions cannot all be satisfied.
C4_DivByZeroUnsatisfiable ==
  (Returned("div") /\ ProvablePath /\ ValidModulus /\ ~op.allowZeroOverZero
   /\ OperandsRangeChecked /\ Value(op.x[2]) % op.f = 0)
  => (err # "" \/ ~AllChecksHold)

\* C6: on the provable path of divide without allowZeroOverZero, whenever
\* gcd(y, f) # 1 the call does not fail synchronously, and the witness it
\* produces (the zero triple) violates an emitted assertion, for every x.
C6_NoInverseUnsatisfiable ==
  (Returned("div") /\ ProvablePath /\ ValidModulus /\ ~op.allowZeroOverZero
   /\ GCD(Value(op.x[2]), op.f) # 1)
  => /\ err = ""
     /\ Len(ret) = 3 /\ IsZeroTriple(ret)
     /\ SomeAssertFails

\* C7: inverse of an x with gcd(x, f) # 1: the constant path throws 'inverse
\* exists' at once; the provable path returns without error, witnesses the
\* zero triple as xInv and emits the assertion r01 = 1, which that witness
\* violates.
C7_InverseOfNonInvertible ==
  (Returned("inv") /\ ValidModulus /\ GCD(Value(op.x[1]), op.f) # 1)
  => IF ConstantPath
     THEN err = ErrInverse /\ ret = <<>> /\ events = <<>>
     ELSE /\ err = ""
          /\ Len(ret) = 3 /\ IsZeroTriple(ret)
          /\ \A i \in 1..3 : ~ret[i].c
          /\ \E i \in Asserts :
               /\ events[i].name = "assertEquals"
               /\ events[i].args[2].v = 1
               /\ ~events[i].ok

\* a provable inversion of a nonzero x sharing a factor with f
C7_Witness ==
  /\ Returned("inv") /\ ProvablePath /\ ValidModulus
  /\ GCD(Value(op.x[1]), op.f) # 1
  /\ Value(op.x[1]) % op.f # 0
  /\ err = "" /\ IsZeroTriple(ret)
  /\ SomeAssertFails

(***************************************************************************)
(* Sum chain                                                               *)
(***************************************************************************)
\* x[0] + sign[0] * x[1] + ... + sign[n-1] * x[n] over the integers
RECURSIVE SignedSumOfValues(_)
SignedSumOfValues(n) ==
  IF n = 0 THEN Value(op.x[1])
  ELSE SignedSumOfValues(n - 1) + op.sign[n] * Value(op.x[n + 1])

\* C5: for range-checked operands and n signs, sumChain returns
\* x[0] + sign[0] * x[1] + ... + sign[n-1] * x[n] reduced modulo f, with the
\* same three limbs on the constant path and for the provable-path witness.
C5_SumChainIsSumModF ==
  (Returned("sumChain") /\ Len(op.x) = Len(op.sign) + 1 /\ op.f > 0
   /\ OperandsRangeChecked)
  => /\ err = ""
     /\ Len(ret) = 3
     /\ bigint3(ret) =
          LET sum == SignedSumOfValues(Len(op.sign)) % op.f
          IN  <<sum % 2^L, (sum \div 2^L) % 2^L, sum \div 2^(2 * L)>>

(***************************************************************************)
(* Preconditions                                                           *)
(***************************************************************************)
PreconditionViolated ==
  \/ op.name = "sumChain" /\ Len(op.x) # Len(op.sign) + 1
  \/ op.name \in {"mul", "inv", "div"} /\ op.f >= Ceiling

\* C8: a call that violates a precondition (sumChain with operands.length #
\* signs.length + 1; multiply, inverse or divide with f >= 2^259) throws, and
\* has created no witness and emitted no gate, range check or assertion, on
\* the constant and on the provable path.
C8_PreconditionFailsFirst ==
  (pc = "done" /\ PreconditionViolated)
  => /\ err \in {ErrLengths, ErrModulus}
     /\ ret = <<>>
     /\ events = <<>>

\* a provable multiplication rejected for a modulus above the ceiling
C8_Witness ==
  /\ Returned("mul") /\ ProvablePath /\ op.f > Ceiling
  /\ err = ErrModulus /\ events = <<>>

\* C9: a modulus exactly at the 2^259 ceiling passes the modulus check of
\* multiply, inverse and divide.
C9_CeilingAccepted ==
  (pc = "done" /\ op.name \in {"mul", "inv", "div"} /\ op.f = Ceiling)
  => err # ErrModulus

\* C9 as amended: the modulus check of multiply, inverse and divide passes
\* for f = 2^259 - 1 and rejects f = 2^259: the ceiling itself is excluded.
C9_CeilingExcluded ==
  (pc = "done" /\ op.name \in {"mul", "inv", "div"})
  => /\ op.f = Ceiling - 1 => err # ErrModulus
     /\ op.f = Ceiling => err = ErrModulus /\ events = <<>>

\* a provable multiplication under the largest accepted modulus
C9_Witness ==
  /\ Returned("mul") /\ ProvablePath /\ op.f = Ceiling - 1
  /\ err = "" /\ Len(ret) = 3 /\ events # <<>>

(***************************************************************************)
(* Limb codec                                                              *)
(***************************************************************************)
\* C10: split(collapse(limbs)) = limbs for limbs in [0, 2^L), and
\* collapse(split(x)) = x for 0 <= x < 2^(3L); likewise split2 and collapse2
\* on two limbs and x < 2^(2L).
C10_CodecRoundTrip ==
  /\ (pc = "back" /\ op.name = "toBigint" /\ RangeChecked(op.x[1]))
       => bigint3(ret) = bigint3(op.x[1])
  /\ (pc = "back" /\ op.name = "from" /\ op.n < 2^(3 * L))
       => big = op.n
  /\ (pc = "back" /\ op.name = "collapse2"
      /\ op.pair[1] < 2^L /\ op.pair[2] < 2^L)
       => pair = op.pair
  /\ (pc = "back" /\ op.name = "split2" /\ op.n < 2^(2 * L))
       => big = op.n

\* a value with three nonzero limbs went through split and back
C10_Witness ==
  /\ pc = "back" /\ op.name = "from"
  /\ op.n < 2^(3 * L)
  /\ \A i \in 1..3 : ret[i].v > 0
  /\ ret[2].v # ret[3].v
  /\ big = op.n

(***************************************************************************)
(* Weak bound                                                              *)
(***************************************************************************)
\* high limb of the modulus
ModulusHighLimb == Shr(op.f, L2)

\* C11: for a modulus of at most three limbs and a value x that the native
\* field adds without wrapping (x + 2^L <= p), weakBound(x, f) is
\* x + (2^L - f2 - 1) with f2 = f >> 2L; it is below 2^L exactly when
\* x <= f2, it is 2^L - 1 for x = f2 and 2^L for x = f2 + 1.
C11_WeakBoundThreshold ==
  (Returned("weakBound") /\ op.f < 2^L3 /\ op.n + 2^L <= p)
  => /\ ret[1].v = op.n + (2^L - ModulusHighLimb - 1)
     /\ (ret[1].v < 2^L) <=> (op.n <= ModulusHighLimb)
     /\ op.n = ModulusHighLimb => ret[1].v = 2^L - 1
     /\ op.n = ModulusHighLimb + 1 => ret[1].v = 2^L

\* the value just above a nonzero modulus high limb failed the bound
C11_Witness ==
  /\ Returned("weakBound") /\ op.f < 2^L3
  /\ ModulusHighLimb > 0
  /\ op.n = ModulusHighLimb + 1
  /\ ret[1].v = 2^L

(***************************************************************************)
(* Constant and provable path                                              *)
(***************************************************************************)
Arithmetic == {"sumChain", "mul", "inv", "div"}
\* every limb of every operand carries the constant tag
EveryLimbConstant ==
  \A i \in 1..Len(op.x) : \A j \in 1..3 : op.x[i][j].c
EmittedGates == {i \in 1..Len(events) : events[i].type = "gate"}
EmittedWitnesses == {i \in 1..Len(events) : events[i].type = "exists"}

\* C12: sumChain, multiply, inverse and divide whose preconditions hold (and
\* whose modulus is not 0, for the three that divide by it) take the constant
\* path exactly when every limb of every operand is constant: then nothing
\* is emitted and a returned triple is constant; with one variable limb the
\* call does not throw and emits gates and range checks.
C12_ConstantPathIffAllConstant ==
  (pc = "done" /\ op.name \in Arithmetic /\ ~PreconditionViolated
   /\ (op.name = "sumChain" \/ op.f > 0))
  => IF EveryLimbConstant
     THEN /\ events = <<>>
          /\ err = "" => (Len(ret) = 3 /\ \A j \in 1..3 : ret[j].c)
     ELSE /\ err = ""
          /\ Len(ret) = 3
          /\ EmittedGates # {}
          /\ \E i \in Checks : events[i].type = "rangeCheck"

\* a multiplication with a single variable limb took the provable path
C12_Witness ==
  /\ Returned("mul") /\ ValidModulus
  /\ Cardinality({ij \in (1..2) \X (1..3) : ~op.x[ij[1]][ij[2]].c}) = 1
  /\ err = "" /\ EmittedGates # {} /\ EmittedWitnesses # {}

(***************************************************************************)
(* Range checks on what is returned                                        *)
(***************************************************************************)
RangeChecks == {i \in 1..Len(events) : events[i].type = "rangeCheck"}
\* the range check i is the one of the returned triple
ChecksReturned(i) ==
  \/ /\ events[i].name = "multiRangeCheck"
     /\ events[i].args = ret
  \/ /\ events[i].name = "compactMultiRangeCheck"
     /\ compactMultiRangeCheck(events[i].args[1], events[i].args[2]).result = ret
\* the fields of the foreign-field-multiply gate that was emitted
MulGate ==
  events[CHOOSE i \in EmittedGates : events[i].name = "foreignFieldMul"].args
\* the events of one type, in the order of emission
EventsOfType(t) == SelectSeq(events, LAMBDA e : e.type = t)

\* C13: a provable sumChain, multiply, inverse or divide that returns has
\* emitted a range check of the very triple it returns, satisfied only if
\* each limb is below 2^L.  multiply range-checks the remainder (r01, r2) of
\* the multiplication gate; inverse and divide emit exactly the range checks
\* of the quotient, of the returned triple and of the two bounds, none of the
\* remainder, which they assert equal to (1, 0) and to (x01, x2).
C13_ReturnedTripleRangeChecked ==
  (pc = "done" /\ op.name \in Arithmetic /\ ~EveryLimbConstant /\ err = "")
  => /\ Len(ret) = 3
     /\ \E i \in RangeChecks :
          ChecksReturned(i) /\ (events[i].ok => RangeChecked(ret))
     /\ op.name = "mul" =>
          \E i \in RangeChecks :
            /\ events[i].name = "compactMultiRangeCheck"
            /\ events[i].args = MulGate.remainder
            /\ ChecksReturned(i)
     /\ op.name \in {"inv", "div"} =>
          /\ Len(EventsOfType("rangeCheck")) = 3
          /\ [i \in 1..3 |-> EventsOfType("rangeCheck")[i].args] =
               <<MulGate.quotient, ret,
                 <<MulGate.quotientHiBound, weakBound(ret[3], op.f), Field(0)>> >>
          /\ \A i \in RangeChecks : events[i].name = "multiRangeCheck"
          /\ LET a == EventsOfType("assert")
                 x == op.x[1]
             IN  /\ Len(a) >= 2
                 /\ a[1].name = "assertEquals" /\ a[2].name = "assertEquals"
                 /\ <<a[1].args[1], a[2].args[1]>> = MulGate.remainder
                 /\ <<a[1].args[2], a[2].args[2]>> =
                      IF op.name = "inv" THEN <<Field(1), Field(0)>>
                      ELSE <<FieldAddF(x[1], FieldMul(x[2], 2^L)), x[3]>>

\* a provable division whose remainder does not fit one limb: the remainder
\* is asserted equal to x, the returned quotient is range-checked
C13_Witness ==
  /\ Returned("div") /\ ~EveryLimbConstant /\ ValidModulus /\ err = ""
  /\ MulGate.remainder[1].v >= 2^L
  /\ Value(ret) > 1
  /\ AllChecksHold

(***************************************************************************)
(* Order of the rows of a sum chain                                        *)
(***************************************************************************)
\* the gates, range checks and assertions, in the order of emission
Constraints == SelectSeq(events, LAMBDA e : e.type # "exists")
\* the running result after step i of the chain (the first operand for i = 0)
RunningResult(i) ==
  IF i = 0 THEN op.x[1] ELSE SubSeq(EventsOfType("exists")[i].args, 1, 3)

\* C14: a provable sumChain with n signs emits n foreign-field-add gates,
\* gate i adding operand i to the running result of step i - 1 with sign i,
\* then one zero row holding the final triple, then one range check of the
\* final triple, and nothing else: no range check of an intermediate result
\* and none before the zero row.
C14_SumChainRowOrder ==
  (Returned("sumChain") /\ ~EveryLimbConstant /\ err = "")
  => LET n == Len(op.sign)
         g == Constraints
     IN  /\ Len(g) = n + 2
         /\ Len(EventsOfType("exists")) = n
         /\ \A i \in 1..n :
              /\ g[i].type = "gate" /\ g[i].name = "foreignFieldAdd"
              /\ g[i].args[1] = RunningResult(i - 1)
              /\ g[i].args[2] = op.x[i + 1]
              /\ g[i].args[6] = op.sign[i]
         /\ ret = RunningResult(n)
         /\ g[n + 1].type = "gate" /\ g[n + 1].name = "zero"
         /\ g[n + 1].args = ret
         /\ g[n + 2].type = "rangeCheck" /\ g[n + 2].name = "multiRangeCheck"
         /\ g[n + 2].args = ret
         /\ Cardinality(RangeChecks) = 1

\* a chain of an addition and a subtraction whose intermediate result differs
\* from the final one
C14_Witness ==
  /\ Returned("sumChain") /\ ~EveryLimbConstant /\ err = ""
  /\ Len(op.sign) = 2 /\ op.sign[1] # op.sign[2]
  /\ RunningResult(1) # RunningResult(2)
  /\ RunningResult(1) # op.x[1]
  /\ Len(Constraints) = 4

(***************************************************************************)
(* Shape of the constraint system                                          *)
(***************************************************************************)
\* what a sequence of events fixes of the constraint system: the kind of each
\* gate, range check and assertion and the slots it fills, not the values
Shape(evs) ==
  LET g == SelectSeq(evs, LAMBDA e : e.type # "exists")
  IN  [i \in 1..Len(g) |-> <<g[i].type, g[i].name, DOMAIN g[i].args>>]
\* the operand x with every limb value replaced by v, the kinds kept
WithValue(x, v) == [j \in 1..3 |-> [v |-> v, c |-> x[j].c]]
\* the outcome of the call of op on operands whose limbs all hold v
RunOn(v) ==
  LET x == [i \in 1..Len(op.x) |-> WithValue(op.x[i], v)]
  IN  CASE op.name = "sumChain" -> sumChain(x, op.sign, op.f)
        [] op.name = "mul" -> multiply(x[1], x[2], op.f)
        [] op.name = "inv" -> inverse(x[1], op.f)
        [] op.name = "div" -> divide(x[1], x[2], op.f, op.allowZeroOverZero)

\* C15: a provable sumChain, multiply, inverse or divide emits the sequence
\* of gates, range checks and assertions, and throws or not, as the same call
\* (operation, operand kinds and count, signs, modulus, allowZeroOverZero)
\* does on operands that are all zero, which have no inverse; so any two
\* runs that differ only in the operand values emit the same sequence.
C15_ShapeIndependentOfValues ==
  (pc = "done" /\ op.name \in Arithmetic /\ ~EveryLimbConstant
   /\ ~PreconditionViolated)
  => /\ Shape(events) = Shape(RunOn(0).events)
     /\ (err = "") <=> (RunOn(0).err = "")

\* a provable inversion of an invertible value, whose assertions hold, next
\* to the run on zero, whose assertion fails on the placeholder witness
C15_Witness ==
  /\ Returned("inv") /\ ~EveryLimbConstant /\ ValidModulus /\ err = ""
  /\ Invertible(Value(op.x[1]), op.f) /\ Value(op.x[1]) > 1
  /\ AllChecksHold
  /\ Len(Shape(events)) = 6
  /\ \E i \in 1..Len(RunOn(0).events) : ~RunOn(0).events[i].ok

(***************************************************************************)
(* Events of the local blockchain                                          *)
(***************************************************************************)
\* the entry e1 was recorded after the entry e2
RecordedAfter(e1, e2) ==
  \/ e1.txn > e2.txn
  \/ e1.txn = e2.txn /\ e1.update > e2.update

\* C16: what fetchEvents returns for an account is in reverse chronological
\* order, the entry recorded last first, on every call.
C16_FetchEventsLatestFirst ==
  lbOut.name = "fetchEvents"
  => \A i, j \in 1..Len(lbOut.fetched) :
       i < j => RecordedAfter(lbOut.fetched[i], lbOut.fetched[j])

(***************************************************************************)
(* Sending a transaction                                                   *)
(***************************************************************************)
\* sendTransaction throws before it reaches the ledger
SubmissionThrows ==
  LET u == lbOut.txn.accountUpdates
  IN  \/ ~lbOut.env.limits
      \/ \E i \in 1..Len(u) : u[i].kindIsProof /\ ~u[i].authIsProof
      \/ lbOut.env.verifyFails \in 1..Len(u)
LedgerRefused == lbOut.env.verdict # "applied"

\* C20: send() throws when sendTransaction throws or the pending transaction
\* carries an error, and otherwise returns the pending transaction; the
\* pending transaction of LocalBlockchain has status 'rejected' exactly when
\* the ledger refused it and carries errors exactly then, so what send()
\* returns has status 'pending', no errors, and was applied by the ledger.
C20_SendThrowsOnErrors ==
  /\ (lbOut.name = "sendTransaction" /\ ~lbOut.threw)
       => /\ lbOut.pending.status = "rejected" <=> LedgerRefused
          /\ lbOut.pending.errors # <<>> <=> LedgerRefused
  /\ lbOut.name = "send"
       => /\ lbOut.threw <=> (SubmissionThrows \/ LedgerRefused)
          /\ (~SubmissionThrows /\ LedgerRefused) => lbOut.error = ErrSend
          /\ lbOut.threw => lbOut.pending = NoPending
          /\ ~lbOut.threw =>
               /\ lbOut.pending.status = "pending"
               /\ lbOut.pending.errors = <<>>
               /\ lbOut.pending.hash = lbOut.txn.id
               /\ ledger # <<>> /\ ledger[Len(ledger)] = lbOut.txn.id

\* send() threw for a transaction whose ledger error could not be parsed,
\* after an earlier transaction was sent and returned
C20_Witness ==
  /\ lbOut.name = "send" /\ lbOut.threw /\ lbOut.error = ErrSend
  /\ lbOut.env.verdict = "refusedText"
  /\ lbOut.txn.id = 2
  /\ ledger = <<1>>


\* the State objects attached to contract instance sc
StatesOf(sc) == {s \in StateObjs : contract[s] # NoContract /\ contract[s].instance = sc}

\* State s was read since it was last cleaned and no requireEquals or
\* requireNothing followed or preceded the read in that time
ReadWithoutPrecondition(s) ==
  period[s].returned # {} /\ ~period[s].required

\* C17: assertStatePrecondition(sc) throws exactly when some State of sc was
\* read by get() since it was last cleaned without requireEquals or
\* requireNothing having been called on it in that time, the error names a key
\* of such a State, and whether it throws or not, afterwards every State of sc
\* has wasRead, wasConstrained and cachedVariable reset
C17_AssertThrowsIffUnconstrainedRead ==
  [][stOut'.name = "assertStatePrecondition" =>
       /\ stOut'.threw <=> \E s \in StatesOf(stOut'.sc) : ReadWithoutPrecondition(s)
       /\ stOut'.threw =>
            /\ stOut'.error = ErrNoPrecondition
            /\ \E s \in StatesOf(stOut'.sc) :
                 contract[s].key = stOut'.key /\ ReadWithoutPrecondition(s)
       /\ \A s \in StatesOf(stOut'.sc) :
            /\ contract'[s].instance = stOut'.sc
            /\ ~contract'[s].wasRead
            /\ ~contract'[s].wasConstrained
            /\ contract'[s].cachedVariable = Undefined
       /\ \A s \in StateObjs \ StatesOf(stOut'.sc) : contract'[s] = contract[s]]_vars

\* assertStatePrecondition threw for key y of a contract whose key x was read
\* and required, and every State of the contract is clean afterwards
C17_Witness ==
  /\ stOut.name = "assertStatePrecondition"
  /\ stOut.threw
  /\ stOut.key = "y"
  /\ <<stOut.sc, "x">> \in preconditions
  /\ Cardinality(StatesOf(stOut.sc)) = 2
  /\ nextVar = 2
  /\ \A s \in StatesOf(stOut.sc) :
       ~contract[s].wasRead /\ contract[s].cachedVariable = Undefined

\* C18: while every get() on a State since it was last cleaned ran inside a
\* checked computation, all of them returned the same variable: the first one
\* created it fresh (it did not exist when the State was cleaned) and cached
\* it, the later ones returned the cached one
C18_OneVariablePerState ==
  /\ [](\A s \in StateObjs :
          (contract[s] # NoContract /\ ~period[s].unchecked) =>
            /\ Cardinality(period[s].returned) <= 1
            /\ \A v \in period[s].returned :
                 /\ v >= period[s].freshFrom
                 /\ contract[s].cachedVariable = v)
  /\ [][(/\ stOut'.name \in {"get", "getAndRequireEquals"}
         /\ ~stOut'.threw
         /\ stOut'.checked) =>
          IF period[stOut'.state].returned = {}
          THEN /\ ~stOut'.cached
               /\ stOut'.var = nextVar
               /\ nextVar' = nextVar + 1
               /\ contract'[stOut'.state].cachedVariable = stOut'.var
          ELSE /\ stOut'.cached
               /\ stOut'.var = contract[stOut'.state].cachedVariable
               /\ nextVar' = nextVar]_vars

\* a get() in a checked computation returned the variable another get()
\* created after the State had been read and cleaned before
C18_Witness ==
  /\ stOut.name = "get"
  /\ stOut.cached
  /\ stOut.checked
  /\ ~period[stOut.state].unchecked
  /\ period[stOut.state].freshFrom > 0
  /\ stOut.var >= period[stOut.state].freshFrom
\* the properties of contract instances that hold State s
HoldersOf(s) == {ik \in Instances \X Keys : slots[ik] = s}

\* C19: a State is attached at most once; assigning a State that is already
\* attached fails with 'A State should only be assigned once to a
\* SmartContract', assigning a State to a property that already holds one
\* fails with 'A @state should only be assigned once', and a failed assignment
\* changes neither the attachment of the State nor what the instance stores
C19_StateAttachedAtMostOnce ==
  /\ [](\A s \in StateObjs :
          IF contract[s] = NoContract
          THEN HoldersOf(s) = {}
          ELSE HoldersOf(s) = {<<contract[s].instance, contract[s].key>>})
  /\ [][stOut'.name = "assign" =>
          /\ contract[stOut'.state] # NoContract =>
               stOut'.threw /\ stOut'.error = ErrStateAssigned
          /\ (/\ contract[stOut'.state] = NoContract
              /\ slots[<<stOut'.sc, stOut'.key>>] # NoState) =>
               stOut'.threw /\ stOut'.error = ErrKeyAssigned
          /\ stOut'.threw => contract' = contract /\ slots' = slots
          /\ ~stOut'.threw =>
               /\ slots' = [slots EXCEPT ![<<stOut'.sc, stOut'.key>>] = stOut'.state]
               /\ contract'[stOut'.state].instance = stOut'.sc
               /\ contract'[stOut'.state].key = stOut'.key]_vars

\* an unattached State was refused by a property that already holds a State,
\* one that has been read, and nothing was attached
C19_Witness ==
  /\ stOut.name = "assign"
  /\ stOut.threw
  /\ stOut.error = ErrKeyAssigned
  /\ contract[stOut.state] = NoContract
  /\ slots[<<stOut.sc, stOut.key>>] # NoState
  /\ contract[slots[<<stOut.sc, stOut.key>>]].wasRead

(***************************************************************************)
(* safeSend, wait and safeWait                                             *)
(***************************************************************************)
\* C21: safeSend() does not throw: for every transaction it resolves to a
\* pending transaction or to a rejected transaction that carries the errors.
C21_SafeSendNeverThrows ==
  lbOut.name = "safeSend"
  => /\ ~lbOut.threw
     /\ lbOut.pending.status \in {"pending", "rejected"}
     /\ lbOut.pending.status = "rejected" => lbOut.pending.errors # <<>>

\* the pending transaction with this hash that a caller holds
PendingOf(hash) ==
  CHOOSE pd \in {pendings[i] : i \in 1..Len(pendings)} : pd.hash = hash
\* the ledger applied the transaction with this hash
Applied(hash) == \E i \in 1..Len(ledger) : ledger[i] = hash

\* C22: wait() of a pending transaction throws exactly when the ledger refused
\* the transaction and otherwise resolves to status 'included'; safeWait()
\* never throws and resolves to status 'rejected' with the errors of the
\* pending transaction exactly when the ledger refused it, else to 'included';
\* the pending transactions and what the ledger applied never change, so
\* repeated calls give the same outcome
C22_WaitOutcomes ==
  /\ [](lbOut.name = "wait" =>
          /\ lbOut.threw <=> ~Applied(lbOut.pending.hash)
          /\ lbOut.threw => lbOut.error = ErrWait
          /\ ~lbOut.threw => lbOut.pending.status = "included")
  /\ [](lbOut.name = "safeWait" =>
          /\ ~lbOut.threw
          /\ lbOut.pending.status \in {"included", "rejected"}
          /\ lbOut.pending.status = "rejected" <=> ~Applied(lbOut.pending.hash)
          /\ lbOut.pending.status = "rejected" =>
               /\ lbOut.pending.errors # <<>>
               /\ lbOut.pending.errors = PendingOf(lbOut.pending.hash).errors)
  /\ [][/\ \A i \in 1..Len(pendings) :
             i <= Len(pendings') /\ pendings'[i] = pendings[i]
        /\ \A i \in 1..Len(pendings) :
             Applied(pendings[i].hash) <=>
               \E j \in 1..Len(ledger') : ledger'[j] = pendings[i].hash]_vars

\* safeWait() resolved to 'rejected' for the first transaction, which the
\* ledger refused with an error that could not be parsed, after a second
\* transaction was accepted
C22_Witness ==
  /\ lbOut.name = "safeWait"
  /\ lbOut.pending.status = "rejected"
  /\ lbOut.pending.hash = 1
  /\ lbOut.pending.errors = <<"fallbackErrorMessage">>
  /\ Len(pendings) = 2
  /\ pendings[2].status = "pending"
  /\ ledger = <<2>>

\* the events and actions of account update i of a transaction are stored
StoredFor(hash, transaction, i) ==
  LET u == transaction[i]
      a == <<u.publicKey, u.tokenId>>
  IN  /\ u.events > 0 =>
           \E j \in 1..Len(lbEvents[a]) :
             /\ lbEvents[a][j].txn = hash
             /\ lbEvents[a][j].update = i
             /\ Len(lbEvents[a][j].events) = u.events
      /\ u.actions > 0 =>
           \E j \in 1..Len(lbActions[a]) :
             lbActions[a][j].actions = [k \in 1..u.actions |-> <<hash, i, k>>]

\* C25: the events and actions of every transaction that sendTransaction took
\* to the ledger are in the stores, whether the ledger applied or refused it,
\* and fetchEvents and getActions (called without action states) return the
\* stored entries of the account
C25_StoredWhenRejected ==
  /\ \A k \in 1..Len(pendings) :
       \A i \in 1..Len(pendings[k].transaction) :
         StoredFor(pendings[k].hash, pendings[k].transaction, i)
  /\ (/\ lbOut.name \in {"sendTransaction", "send", "safeSend"}
      /\ ~SubmissionThrows) =>
       \A i \in 1..Len(lbOut.txn.accountUpdates) :
         StoredFor(lbOut.txn.id, lbOut.txn.accountUpdates, i)
  /\ lbOut.name = "fetchEvents" =>
       /\ Len(lbOut.fetched) = Len(lbEvents[lbOut.account])
       /\ \A j \in 1..Len(lbOut.fetched) :
            \E k \in 1..Len(lbOut.fetched) :
              lbEvents[lbOut.account][k] = lbOut.fetched[j]
  /\ (lbOut.name = "getActions" /\ lbOut.range = NoRange) =>
       /\ ~lbOut.threw
       /\ lbOut.fetched = lbActions[lbOut.account]

\* getActions returned the actions of a transaction the ledger refused, and
\* the events of that transaction are in the store as well
C25_Witness ==
  /\ lbOut.name = "getActions"
  /\ lbOut.range = NoRange
  /\ lbOut.account = <<"B62a", "MINA">>
  /\ Len(lbOut.fetched) = 1
  /\ lbOut.fetched[1].actions = <<<<1, 1, 1>>>>
  /\ Len(pendings) = 1
  /\ pendings[1].status = "rejected"
  /\ ledger = <<>>
  /\ Len(lbEvents[<<"B62a", "MINA">>]) = 1

(***************************************************************************)
(* The transaction context                                                 *)
(***************************************************************************)
\* C23: at most one transaction context is active; createTransaction called
\* while one is active throws 'Cannot start new transaction within another
\* transaction', enters no context and leaves the active one and the call
\* that entered it as they are
C23_NoNestedTransaction ==
  /\ [](Len(ctx) <= 1)
  /\ [][(txOut'.step = "start" /\ ctx # <<>>) =>
          /\ txOut'.threw
          /\ txOut'.error = ErrNested
          /\ ctx' = ctx
          /\ nextId' = nextId
          /\ txPc' = txPc]_vars

\* createTransaction was refused while f of the second transaction was running
C23_Witness ==
  /\ txOut.step = "start"
  /\ txOut.threw
  /\ txOut.error = ErrNested
  /\ txPc = "f"
  /\ Len(ctx) = 1
  /\ ctx[1].id = 2

\* C24: every exit of createTransaction leaves the context it entered: while
\* no call of createTransaction is running no context is active, so a call
\* made then is not refused as nested
C24_EveryExitLeavesContext ==
  txPc = "idle" => ctx = <<>>

(***************************************************************************)
(* One step of a sum chain                                                 *)
(***************************************************************************)
\* a native field element read as a small signed number
Signed(x) == IF x.v > p \div 2 THEN x.v - p ELSE x.v
\* step i of a provable sumChain: its five witnesses, its operands as the
\* step reads them, and the overflow the claim prescribes
StepWitness(i) == EventsOfType("exists")[i].args
StepLeft(i) == collapse(bigint3(RunningResult(i - 1)))
StepRight(i) == collapse(bigint3(op.x[i + 1]))
StepSum(i) == StepLeft(i) + op.sign[i] * StepRight(i)
StepOverflow(i) ==
  IF op.f = 0 THEN 0
  ELSE IF op.sign[i] = 1 /\ StepSum(i) >= op.f THEN 1
  ELSE IF op.sign[i] = -1 /\ StepSum(i) < 0 THEN -1
  ELSE 0
\* what the claim says of step i apart from the equation of the limbs
StepWitnessesAndGate(i) ==
  /\ Len(StepWitness(i)) = 5
  /\ Signed(StepWitness(i)[4]) = StepOverflow(i)
  /\ StepWitness(i)[1].v < 2^L
  /\ StepWitness(i)[2].v < 2^L
  /\ Constraints[i].type = "gate"
  /\ Constraints[i].name = "foreignFieldAdd"
  /\ Constraints[i].args =
       <<RunningResult(i - 1), op.x[i + 1], StepWitness(i)[4],
         StepWitness(i)[5], split(op.f), op.sign[i]>>
ProvableSumChain ==
  Returned("sumChain") /\ ~EveryLimbConstant /\ err = ""

OperandsReduced ==
  /\ op.f > 0
  /\ OperandsRangeChecked
  /\ \A i \in 1..Len(op.x) : Value(op.x[i]) < op.f

RemainderAsserts == {i \in Asserts : events[i].name = "assertEquals"}
\* a provable divide that returned, on range-checked operands with y
\* invertible modulo f
ProvableDivide ==
  /\ Returned("div") /\ ~EveryLimbConstant /\ err = ""
  /\ OperandsRangeChecked
  /\ Invertible(Value(op.x[2]), op.f)

\* C28: on the provable path of divide with y invertible modulo f, the
\* witness the code produces satisfies the two remainder assertions exactly
\* when x < f: for x < f every emitted assertion holds, for a range-checked
\* x >= f a remainder assertion fails, and in both cases the returned z
\* decodes to x * y^-1 mod f.
C28_RemainderAssertionsIffReduced ==
  ProvableDivide =>
    /\ Cardinality(RemainderAsserts) = 2
    /\ (\A i \in RemainderAsserts : events[i].ok) <=> Value(op.x[1]) < op.f
    /\ Value(op.x[1]) < op.f => \A i \in Asserts : events[i].ok
    /\ (Value(op.x[1]) < op.f /\ Value(op.x[2]) < op.f) => AllChecksHold
    /\ Value(ret) < op.f
    /\ (Value(ret) * Value(op.x[2])) % op.f = Value(op.x[1]) % op.f

\* a range-checked x >= f divided by an invertible y: the quotient decodes
\* to a value other than 0 and a remainder assertion fails
C28_Witness ==
  /\ ProvableDivide
  /\ Value(op.x[1]) >= op.f
  /\ Value(op.x[1]) % op.f # 0
  /\ \E i \in RemainderAsserts : ~events[i].ok
  /\ (Value(ret) * Value(op.x[2])) % op.f = Value(op.x[1]) % op.f

(***************************************************************************)
(* The multiplication core                                                 *)
(***************************************************************************)
\* a provable multiply that returned: its first two events are those of
\* multiplyNoRangeCheck(a, b, f)
ProvableMul == Returned("mul") /\ ~EveryLimbConstant /\ err = ""
CoreOutcome == multiplyNoRangeCheck(op.x[1], op.x[2], op.f)
CoreProduct == Value(op.x[1]) * Value(op.x[2])
CoreQuotient == CoreProduct \div op.f
CoreRemainder == CoreProduct - CoreQuotient * op.f

\* C29: multiplyNoRangeCheck witnesses q = floor(a*b / f) and r with
\* a*b = q*f + r and 0 <= r < f; it returns r01 = r mod 2^(2L), r2 = r >> 2L,
\* the three limbs of q and q2Bound = q2 + 2^L - (f >> 2L) - 1 (as native
\* field elements), emits exactly one foreign-field-multiply gate, which
\* carries these values, and emits no range check.
C29_MultiplicationCore ==
  ProvableMul =>
    /\ CoreProduct = CoreQuotient * op.f + CoreRemainder
    /\ 0 <= CoreRemainder /\ CoreRemainder < op.f
    /\ CoreOutcome.r01 = Var(CoreRemainder % 2^L2)
    /\ CoreOutcome.r2 = Var(CoreRemainder \div 2^L2)
    /\ CoreOutcome.q = Vars(split(CoreQuotient))
    /\ CoreOutcome.q2Bound =
         Var(split(CoreQuotient)[3] + 2^L - Shr(op.f, L2) - 1)
    /\ CoreOutcome.events = SubSeq(events, 1, 2)
    /\ events[1].type = "exists" /\ Len(events[1].args) = 21
    /\ SubSeq(events[1].args, 1, 6) =
         <<CoreOutcome.r01, CoreOutcome.r2>> \o CoreOutcome.q
         \o <<CoreOutcome.q2Bound>>
    /\ events[2].type = "gate" /\ events[2].name = "foreignFieldMul"
    /\ Cardinality({i \in 1..Len(events) :
                      events[i].name = "foreignFieldMul"}) = 1
    /\ MulGate.left = op.x[1] /\ MulGate.right = op.x[2]
    /\ MulGate.remainder = <<CoreOutcome.r01, CoreOutcome.r2>>
    /\ MulGate.quotient = CoreOutcome.q
    /\ MulGate.quotientHiBound = CoreOutcome.q2Bound
    /\ \A i \in 1..Len(CoreOutcome.events) :
         CoreOutcome.events[i].type # "rangeCheck"
    /\ \A i \in RangeChecks : i > 2

\* a product of two limbs-spanning operands with quotient and remainder both
\* reaching their high limbs
C29_Witness ==
  /\ ProvableMul
  /\ CoreQuotient >= 2^L2
  /\ CoreRemainder >= 2^L2
  /\ CoreOutcome.r2.v > 0
  /\ CoreOutcome.q[3].v > 0
  /\ events[2].name = "foreignFieldMul"

(***************************************************************************)
(* The windows of the high carry                                           *)
(***************************************************************************)
\* the high carry c1 of the product, computed from the operands as lines
\* 240-258 compute it
CoreCarry1 ==
  LET a_ == bigint3(op.x[1])
      b_ == bigint3(op.x[2])
      fs == split(2^L3 - op.f)
      q_ == split(CoreQuotient)
      r_ == split(CoreRemainder)
      p0 == a_[1] * b_[1] + q_[1] * fs[1]
      p1 == a_[1] * b_[2] + a_[2] * b_[1] + q_[1] * fs[2] + q_[2] * fs[1]
      p2 == a_[1] * b_[3] + a_[2] * b_[2] + a_[3] * b_[1]
            + q_[1] * fs[3] + q_[2] * fs[2] + q_[3] * fs[1]
      p1s == split(p1)
      c0 == Shr(p0 + p1s[1] * 2^L - collapse2(<<r_[1], r_[2]>>), L2)
  IN  Shr(p2 - r_[3] + collapse2(<<p1s[2], p1s[3]>>) + c0, L)
\* the windows of c1 among the 21 witnesses: those after the first ten
Carry1Witnesses == SubSeq(events[1].args, 11, Len(events[1].args))
WindowsOfWidth(n) ==
  {i \in 1..Len(carry1Windows) : carry1Windows[i][2] = n}

ProvableDivideAllowingZero ==
  Returned("div") /\ ~EveryLimbConstant /\ err = "" /\ op.allowZeroOverZero
\* the call divides zero by a range-checked multiple of f
ZeroOverZero ==
  /\ OperandsRangeChecked
  /\ Value(op.x[1]) = 0
  /\ Value(op.x[2]) % op.f = 0
\* the range-checked triples a prover may witness as z
RangeCheckedTriples == (0..(2^L - 1)) \X (0..(2^L - 1)) \X (0..(2^L - 1))
\* every range check and assertion the call emits holds when z is witnessed
\* in place of the honest value
\* (the foreign-field-multiply gate holds when left * right equals
\* quotient * f + remainder on the values it is given)
MulGateHolds(gate) ==
  Value(gate.left) * Value(gate.right) =
    Value(gate.quotient) * op.f
    + gate.remainder[1].v + gate.remainder[2].v * 2^L2
EveryEventHolds(emitted) ==
  \A i \in 1..Len(emitted) :
    /\ emitted[i].ok
    /\ emitted[i].name = "foreignFieldMul" => MulGateHolds(emitted[i].args)
SatisfiedBy(z) ==
  EveryEventHolds(divideWith(op.x[1], op.x[2], op.f, TRUE, Var3(z)).events)
\* the call differs from the one with allowZeroOverZero unset only by the
\* two y != 0 assertions, which it does not emit
OnlyNonzeroChecksDropped(unset) ==
  /\ \A i \in 1..Len(events) : events[i].name # "assertFalse"
  /\ unset.err = "" /\ unset.ret = ret
  /\ Len(unset.events) = Len(events) + 2
  /\ SubSeq(unset.events, 1, Len(events)) = events
  /\ \A i \in (Len(events) + 1)..(Len(events) + 2) :
       unset.events[i].type = "assert" /\ unset.events[i].name = "assertFalse"

\* C31 as stated: with allowZeroOverZero set, provable divide emits no
\* y != 0 assertion and otherwise the same sequence as with it unset; when
\* y is congruent to 0 and x = 0, the constraints are satisfied by the
\* honest witness z = 0 and by every other range-checked z whose high limb
\* is at most f >> 2L.
C31_ZeroOverZeroUnconstrained ==
  ProvableDivideAllowingZero =>
    /\ OnlyNonzeroChecksDropped(divide(op.x[1], op.x[2], op.f, FALSE))
    /\ ZeroOverZero =>
         /\ IsZeroTriple(ret) /\ EveryEventHolds(events)
         /\ \A z \in RangeCheckedTriples :
              z[3] <= Shr(op.f, L2) => SatisfiedBy(z)

\* C31 amended: the emitted sequence is as stated; when x = 0 and y = k * f,
\* the constraints are satisfied by the honest witness z = 0 and by exactly
\* those range-checked z with high limb at most f >> 2L for which the high
\* limb of the quotient k * z is at most f >> 2L too: every such z for
\* y = 0 and y = f, not every one for a larger multiple of f.
C31_ZeroOverZeroUnconstrainedUpToQuotientBound ==
  ProvableDivideAllowingZero =>
    /\ OnlyNonzeroChecksDropped(divide(op.x[1], op.x[2], op.f, FALSE))
    /\ ZeroOverZero =>
         /\ IsZeroTriple(ret) /\ EveryEventHolds(events)
         /\ \A z \in RangeCheckedTriples :
              SatisfiedBy(z) <=>
                /\ z[3] <= Shr(op.f, L2)
                /\ Shr(collapse(z) * (Value(op.x[2]) \div op.f), L2)
                     <= Shr(op.f, L2)
         /\ Value(op.x[2]) \in {0, op.f} =>
              \A z \in RangeCheckedTriples :
                z[3] <= Shr(op.f, L2) => SatisfiedBy(z)

\* zero divided by y = f, where a z other than the honest 0 satisfies every
\* constraint as well
C31_Witness ==
  /\ ProvableDivideAllowingZero /\ ZeroOverZero
  /\ Value(op.x[2]) = op.f
  /\ op.f >= 2^L2
  /\ IsZeroTriple(ret) /\ EveryEventHolds(events)
  /\ \E z \in RangeCheckedTriples : z[3] > 0 /\ SatisfiedBy(z)
====
